---- MODULE Spec2Model ----
(***************************************************************************)
(* A model of the MFS volume engine of mfs.js (class MFSVolume and its     *)
(* helper class MFSLibUtils).  The image buffer is modelled byte for byte: *)
(* it is kept run-length encoded (a sequence of runs of equal or           *)
(* consecutive bytes), which is only a compact encoding of the byte array  *)
(* the DataView reads and writes.  The clock is fixed (NowSeconds), and a  *)
(* caller's buffer is known by a number: two byte sequences are equal when *)
(* they hold the same bytes of the same caller's buffer.  The module also   *)
(* models macpaint.js: PackBits, the dithering strategies, ImageUtils and  *)
(* MacPaintImage, a raster being kept as bands of equal rows.              *)
(***************************************************************************)
EXTENDS Integers, Sequences, FiniteSets, TLC

(***************************************************************************)
(* Bounds of the model.                                                    *)
(***************************************************************************)
\* sizeKB given to the constructor: 8 KB of boot blocks, MDB and directory,
\* the rest allocation blocks of 1 KB
SizeKB == 12
\* writeFile is not called once nextFileNum has passed this value
MaxFileNum == 2
\* the wall clock (seconds since 1970), read by every new Date()
NowSeconds == 1

(***************************************************************************)
(* Program constants.                                                      *)
(***************************************************************************)
MFS_SIGNATURE == 53975
SECTOR_SIZE == 512
DEFAULT_ALLOC_BLOCK_SIZE_400K == 1024
MDB_START_SECTOR == 2
BOOT_BLOCK_SECTORS == 2
MFS_EPOCH_OFFSET == 0 - 2082844800

\* y, with x evaluated first: TLC evaluates a LET definition where it is first
\* used, and a long chain of buffer updates would otherwise be evaluated nested
Strict(x, y) == IF x = x THEN y ELSE y

\* the elements of an array, each computed once
Array(s) == s \o <<>>

Min(a, b) == IF a < b THEN a ELSE b
Max(a, b) == IF a > b THEN a ELSE b

(***************************************************************************)
(* The image buffer.  A run is [start, kind, a, off, len]: the len bytes   *)
(* at offsets start .. start+len-1 of the buffer, where                    *)
(*   kind = "lit" : every byte has value a (off = 0);                      *)
(*   kind = "data": they are bytes off .. off+len-1 of the caller's buffer *)
(*                  number a.                                              *)
(* A buffer is the sequence of its runs in ascending order, in normal      *)
(* form: no empty run, adjacent runs never mergeable.                      *)
(***************************************************************************)
Lit(v, n) == [start |-> 0, kind |-> "lit", a |-> v, off |-> 0, len |-> n]
DataRun(tag, o, n) == [start |-> 0, kind |-> "data", a |-> tag, off |-> o, len |-> n]

\* n zero bytes (a fresh ArrayBuffer)
zeroBytes(n) == IF n <= 0 THEN <<>> ELSE <<Lit(0, n)>>

\* byte i of the caller's buffer number tag
SourceByte(tag, i) == (tag * 64 + i) % 256

byteLength(buf) ==
    IF buf = <<>> THEN 0 ELSE buf[Len(buf)].start + buf[Len(buf)].len

\* the index of the run that holds offset o: the last run among lo .. hi that
\* starts at or below o
RECURSIVE RunSearch(_, _, _, _)
RunSearch(buf, o, lo, hi) ==
    IF lo >= hi THEN lo
    ELSE LET mid == (lo + hi + 1) \div 2
         IN IF buf[mid].start <= o THEN RunSearch(buf, o, mid, hi)
            ELSE RunSearch(buf, o, lo, mid - 1)

RunAt(buf, o) == RunSearch(buf, o, 1, Len(buf))

\* the bytes from .. to-1 of run r
Piece(r, from, to) ==
    [start |-> from, kind |-> r.kind, a |-> r.a,
     off |-> IF r.kind = "data" THEN r.off + (from - r.start) ELSE 0,
     len |-> to - from]

\* the runs of the bytes below offset o, and of the bytes from o on
Before(buf, o) ==
    IF o <= 0 THEN <<>>
    ELSE IF o >= byteLength(buf) THEN buf
    ELSE LET i == RunAt(buf, o)
         IN SubSeq(buf, 1, i - 1)
            \o (IF buf[i].start < o THEN <<Piece(buf[i], buf[i].start, o)>> ELSE <<>>)

After(buf, o) ==
    IF o >= byteLength(buf) THEN <<>>
    ELSE IF o <= 0 THEN buf
    ELSE LET i == RunAt(buf, o)
         IN <<Piece(buf[i], o, buf[i].start + buf[i].len)>>
            \o SubSeq(buf, i + 1, Len(buf))

Mergeable(r, s) ==
    /\ r.kind = s.kind
    /\ r.a = s.a
    /\ (r.kind = "data" => r.off + r.len = s.off)

\* x followed by y (y starts where x ends), merged where they meet
Join(x, y) ==
    IF x = <<>> THEN y
    ELSE IF y = <<>> THEN x
    ELSE IF Mergeable(x[Len(x)], y[1])
    THEN SubSeq(x, 1, Len(x) - 1)
         \o <<[x[Len(x)] EXCEPT !.len = @ + y[1].len]>>
         \o Tail(y)
    ELSE x \o y

Shift(x, d) == [i \in 1..Len(x) |-> [x[i] EXCEPT !.start = @ + d]]

\* the byte sequence x followed by the byte sequence y
Concat(x, y) == Join(x, Shift(y, byteLength(x)))

\* bytes o .. o+n-1 of the buffer, as a byte sequence of its own
Slice(buf, o, n) ==
    IF n <= 0 THEN <<>> ELSE Shift(Before(After(buf, o), o + n), 0 - o)

\* the buffer with the bytes of run r stored at o .. o+r.len-1
WriteRun(buf, o, r) ==
    IF r.len <= 0 THEN buf
    ELSE Join(Join(Before(buf, o), <<[r EXCEPT !.start = o]>>), After(buf, o + r.len))

(***************************************************************************)
(* MFSLibUtils.                                                            *)
(***************************************************************************)
readUint8(buf, offset) ==
    LET r == buf[RunAt(buf, offset)]
    IN IF r.kind = "lit" THEN r.a ELSE SourceByte(r.a, r.off + (offset - r.start))

writeUint8(buf, offset, value) == WriteRun(buf, offset, Lit(value % 256, 1))

readUint16BE(buf, offset) ==
    readUint8(buf, offset) * 256 + readUint8(buf, offset + 1)

\* the one-byte run of value v at offset o
ByteAt(o, v) == <<[start |-> o, kind |-> "lit", a |-> v % 256, off |-> 0, len |-> 1]>>

\* the buffer with the runs x, that start at offset o and hold n bytes, stored
WriteRuns(buf, o, x, n) == Join(Join(Before(buf, o), x), After(buf, o + n))

\* the bytes setUint16 and setUint32 store at offset, as runs
Uint16Runs(offset, value) ==
    Join(ByteAt(offset, value \div 256), ByteAt(offset + 1, value))

Uint32Runs(offset, value) ==
    Join(Join(Join(ByteAt(offset, value \div 16777216),
                   ByteAt(offset + 1, value \div 65536)),
              ByteAt(offset + 2, value \div 256)),
         ByteAt(offset + 3, value))

writeUint16BE(buf, offset, value) ==
    WriteRuns(buf, offset, Uint16Runs(offset, value), 2)

readUint32BE(buf, offset) ==
    readUint16BE(buf, offset) * 65536 + readUint16BE(buf, offset + 2)

writeUint32BE(buf, offset, value) ==
    WriteRuns(buf, offset, Uint32Runs(offset, value), 4)

\* A run of consecutive writeUint8/16BE/32BE statements is the list of its
\* stores, [offset, width, value], carried out in the order of the statements.
Store(offset, width, value) == [offset |-> offset, width |-> width, value |-> value]

RECURSIVE storeEach(_, _)
storeEach(buf, fields) ==
    IF fields = <<>> THEN buf
    ELSE LET f == Head(fields)
             w == IF f.width = 1 THEN writeUint8(buf, f.offset, f.value)
                  ELSE IF f.width = 2 THEN writeUint16BE(buf, f.offset, f.value)
                  ELSE writeUint32BE(buf, f.offset, f.value)
         IN Strict(w, storeEach(w, Tail(fields)))

\* every store of the list begins where the one before it ends
Contiguous(fields) ==
    \A k \in 1..(Len(fields) - 1) :
        fields[k + 1].offset = fields[k].offset + fields[k].width

\* the bytes stores k .. Len(fields) of a contiguous list store, as runs
RECURSIVE FieldRuns(_, _)
FieldRuns(fields, k) ==
    IF k > Len(fields) THEN <<>>
    ELSE LET f == fields[k]
         IN Join(IF f.width = 1 THEN ByteAt(f.offset, f.value)
                 ELSE IF f.width = 2 THEN Uint16Runs(f.offset, f.value)
                 ELSE Uint32Runs(f.offset, f.value),
                 FieldRuns(fields, k + 1))

\* the buffer after the stores of the list: stores that lie one behind the
\* other fill one stretch of bytes
storeFields(buf, fields) ==
    IF fields = <<>> THEN buf
    ELSE IF Contiguous(fields)
    THEN LET last == fields[Len(fields)]
         IN WriteRuns(buf, fields[1].offset, FieldRuns(fields, 1),
                      last.offset + last.width - fields[1].offset)
    ELSE storeEach(buf, fields)

\* the runs of characters lo .. hi of str, the first character of str being
\* at offset
RECURSIVE CharRuns(_, _, _, _)
CharRuns(str, lo, hi, offset) ==
    IF lo > hi THEN <<>>
    ELSE IF lo = hi THEN ByteAt(offset + lo - 1, str[lo])
    ELSE LET mid == (lo + hi) \div 2
         IN Join(CharRuns(str, lo, mid, offset), CharRuns(str, mid + 1, hi, offset))

\* the bytes of a sequence of character codes, stored from offset on
writeChars(buf, offset, str) ==
    IF str = <<>> THEN buf
    ELSE WriteRuns(buf, offset, CharRuns(str, 1, Len(str), offset), Len(str))

\* the n bytes from offset on, as character codes
RECURSIVE readChars(_, _, _)
readChars(buf, offset, n) ==
    IF n <= 0 THEN <<>>
    ELSE IF n = 1 THEN <<readUint8(buf, offset)>>
    ELSE readChars(buf, offset, n \div 2)
           \o readChars(buf, offset + n \div 2, n - n \div 2)

readPascalString(buf, offset, maxLength) ==
    readChars(buf, offset + 1, Min(readUint8(buf, offset), maxLength))

writePascalString(buf, offset, str, fixedLength) ==
    LET len == Min(Len(str), fixedLength - 1)
        b1 == writeUint8(buf, offset, len)
        b2 == writeChars(b1, offset + 1, SubSeq(str, 1, len))
    IN Strict(b2, WriteRun(b2, offset + 1 + len, Lit(0, fixedLength - 1 - len)))

\* A Date is <<seconds since 1970>>, null is <<>>.
mfsTimestampToDate(mfsTime) ==
    IF mfsTime = 0 THEN <<>> ELSE <<mfsTime + MFS_EPOCH_OFFSET>>

dateToMFSTimestamp(date) ==
    IF date = <<>> THEN 0 ELSE date[1] - MFS_EPOCH_OFFSET

getABMEntryFromTriplet(b0, b1, b2, isEvenIndex) ==
    IF isEvenIndex THEN b0 * 16 + (b1 \div 16)
    ELSE (b1 % 16) * 256 + b2

\* the largest value of 12 bits
MaxABMValue == 4095

\* a variant of packABMEntryToTriplet that stores whole bytes
packABMEntryWholeBytes(value, b0, b1, b2, isEvenIndex) ==
    IF isEvenIndex
    THEN [err |-> IF value > MaxABMValue THEN "InvalidArgument" ELSE "",
          b0 |-> (value \div 16) % 256,
          b1 |-> (value % 16) * 16,
          b2 |-> b2]
    ELSE [err |-> IF value > MaxABMValue THEN "InvalidArgument" ELSE "",
          b0 |-> b0,
          b1 |-> (value \div 256) % 16,
          b2 |-> value % 256]

\* packABMEntryToTriplet: err /= "" when it throws
packABMEntryToTriplet(value, b0, b1, b2, isEvenIndex) ==
    IF value > MaxABMValue
    THEN [err |-> "InvalidArgument", b0 |-> b0, b1 |-> b1, b2 |-> b2]
    ELSE IF isEvenIndex
    THEN [err |-> "",
          b0 |-> (value \div 16) % 256,
          b1 |-> (b1 % 16) + (value % 16) * 16,
          b2 |-> b2]
    ELSE [err |-> "",
          b0 |-> b0,
          b1 |-> (b1 \div 16) * 16 + ((value \div 256) % 16),
          b2 |-> value % 256]

(***************************************************************************)
(* MFSVolume: the master directory block.                                  *)
(***************************************************************************)
mdbOffset == MDB_START_SECTOR * SECTOR_SIZE
abmOffsetInMDB == 64
abmDiskOffset == mdbOffset + abmOffsetInMDB

\* this.abm[i] of the 0-indexed JavaScript array, undefined read as 0
AbmAt(abm, i) == IF i + 1 <= Len(abm) THEN abm[i + 1] ELSE 0

\* the three bytes the ABM loop of _writeMDB stores for triplet t, as runs
TripletRuns(buf, numAllocBlocks, abm, t) ==
    LET o == abmDiskOffset + t * 3
        i == 2 * t
        old == o + 2 < byteLength(buf)
        b0 == IF old THEN readUint8(buf, o) ELSE 0
        b1 == IF old THEN readUint8(buf, o + 1) ELSE 0
        b2 == IF old THEN readUint8(buf, o + 2) ELSE 0
        p1 == packABMEntryToTriplet(AbmAt(abm, i), b0, b1, b2, TRUE)
        p2 == IF i + 1 < numAllocBlocks
              THEN packABMEntryToTriplet(AbmAt(abm, i + 1), p1.b0, p1.b1, p1.b2, FALSE)
              ELSE p1
    IN Join(Join(ByteAt(o, p2.b0), ByteAt(o + 1, p2.b1)), ByteAt(o + 2, p2.b2))

\* the bytes the loop stores for triplets lo .. hi
RECURSIVE ABMRuns(_, _, _, _, _)
ABMRuns(buf, numAllocBlocks, abm, lo, hi) ==
    IF lo > hi THEN <<>>
    ELSE IF lo = hi THEN TripletRuns(buf, numAllocBlocks, abm, lo)
    ELSE LET mid == (lo + hi) \div 2
         IN Join(ABMRuns(buf, numAllocBlocks, abm, lo, mid),
                 ABMRuns(buf, numAllocBlocks, abm, mid + 1, hi))

\* a variant of writeABM that stores nothing
writeABMNone(buf, numAllocBlocks, abm) == buf

\* packABMEntryToTriplet throws in pass t of the ABM loop of _writeMDB
tripletThrows(numAllocBlocks, abm, t) ==
    \/ packABMEntryToTriplet(AbmAt(abm, 2 * t), 0, 0, 0, TRUE).err # ""
    \/ /\ 2 * t + 1 < numAllocBlocks
       /\ packABMEntryToTriplet(AbmAt(abm, 2 * t + 1), 0, 0, 0, FALSE).err # ""

\* the passes of the ABM loop of _writeMDB that store their triplet: all,
\* or those before the first pass that throws
triplesStored(numAllocBlocks, abm) ==
    LET triplets == (numAllocBlocks + 1) \div 2
        thrown == {t \in 0..(triplets - 1) : tripletThrows(numAllocBlocks, abm, t)}
    IN IF thrown = {} THEN triplets
       ELSE CHOOSE t \in thrown : \A u \in thrown : t <= u

\* the ABM loop of _writeMDB: every triplet is read and stored once, and no
\* triplet overlaps another
writeABM(buf, numAllocBlocks, abm) ==
    IF numAllocBlocks <= 0 THEN buf
    ELSE LET triplets == triplesStored(numAllocBlocks, abm)
         IN WriteRuns(buf, abmDiskOffset,
                      ABMRuns(buf, numAllocBlocks, abm, 0, triplets - 1),
                      3 * triplets)

\* _writeMDB throws: an entry of the ABM exceeds 12 bits
writeMDBThrows(vi, abm) ==
    triplesStored(vi.numAllocBlocks, abm) < (vi.numAllocBlocks + 1) \div 2

\* _writeMDB: the image buffer after the volume info and the ABM are stored
writeMDB(buf, vi, abm) ==
    LET m == mdbOffset
        fields == storeFields(buf,
            <<Store(m + 0, 2, vi.signature),
              Store(m + 2, 4, dateToMFSTimestamp(vi.creationDate)),
              Store(m + 6, 4, dateToMFSTimestamp(vi.modificationDate)),
              Store(m + 10, 2, vi.attributes),
              Store(m + 12, 2, vi.numFiles),
              Store(m + 14, 2, vi.dirStartBlock),
              Store(m + 16, 2, vi.dirLengthBlocks),
              Store(m + 18, 2, vi.numAllocBlocks),
              Store(m + 20, 4, vi.allocBlockSize),
              Store(m + 24, 4, vi.clumpSize),
              Store(m + 28, 2, vi.allocBlockStartSector),
              Store(m + 30, 4, vi.nextFileNum),
              Store(m + 34, 2, vi.freeAllocBlocks)>>)
    IN writeABM(writePascalString(fields, m + 36, vi.volumeName, 28),
                vi.numAllocBlocks, abm)

\* _parseMDB: the volume info and the ABM array decoded from the buffer
parseVolumeInfo(buf) ==
    LET m == mdbOffset
    IN [signature |-> readUint16BE(buf, m + 0),
        creationDate |-> mfsTimestampToDate(readUint32BE(buf, m + 2)),
        modificationDate |-> mfsTimestampToDate(readUint32BE(buf, m + 6)),
        attributes |-> readUint16BE(buf, m + 10),
        numFiles |-> readUint16BE(buf, m + 12),
        dirStartBlock |-> readUint16BE(buf, m + 14),
        dirLengthBlocks |-> readUint16BE(buf, m + 16),
        numAllocBlocks |-> readUint16BE(buf, m + 18),
        allocBlockSize |-> readUint32BE(buf, m + 20),
        clumpSize |-> readUint32BE(buf, m + 24),
        allocBlockStartSector |-> readUint16BE(buf, m + 28),
        nextFileNum |-> readUint32BE(buf, m + 30),
        freeAllocBlocks |-> readUint16BE(buf, m + 34),
        volumeName |-> readPascalString(buf, m + 36, 27)]

\* entry n (0-indexed) of the ABM, decoded from its triplet in the buffer
parseABMEntry(buf, n) ==
    LET t == abmDiskOffset + (n \div 2) * 3
    IN getABMEntryFromTriplet(readUint8(buf, t), readUint8(buf, t + 1),
                              readUint8(buf, t + 2), n % 2 = 0)

parseABM(buf, numAllocBlocks) ==
    [k \in 1..numAllocBlocks |-> parseABMEntry(buf, k - 1)]

(***************************************************************************)
(* MFSVolume: the file directory.                                          *)
(***************************************************************************)
EntryHeaderLength == 51
MinEntryLength == 52

\* _entryLength of an entry whose name has nameLen characters
entryLength(nameLen) ==
    IF (EntryHeaderLength + nameLen) % 2 # 0
    THEN EntryHeaderLength + nameLen + 1
    ELSE EntryHeaderLength + nameLen

\* the entry _parseFileDirectory decodes at byte offset o of the buffer
parseEntry(buf, o) ==
    LET flPosRaw == readUint32BE(buf, o + 12)
        flNamLen == readUint8(buf, o + 50)
    IN [flags |-> readUint8(buf, o),
        version |-> readUint8(buf, o + 1),
        type |-> readChars(buf, o + 2, 4),
        creator |-> readChars(buf, o + 6, 4),
        finderFlags |-> readUint16BE(buf, o + 10),
        iconPosition |-> [v |-> flPosRaw \div 65536, h |-> flPosRaw % 65536],
        folderNum |-> readUint16BE(buf, o + 16),
        fileNum |-> readUint32BE(buf, o + 18),
        dataForkStartBlock |-> readUint16BE(buf, o + 22),
        dataForkLogicalLength |-> readUint32BE(buf, o + 24),
        dataForkAllocLength |-> readUint32BE(buf, o + 28),
        resourceForkStartBlock |-> readUint16BE(buf, o + 32),
        resourceForkLogicalLength |-> readUint32BE(buf, o + 34),
        resourceForkAllocLength |-> readUint32BE(buf, o + 38),
        creationDate |-> mfsTimestampToDate(readUint32BE(buf, o + 42)),
        modificationDate |-> mfsTimestampToDate(readUint32BE(buf, o + 46)),
        filename |-> readChars(buf, o + 51, flNamLen),
        diskOffset |-> o,
        entryLength |-> entryLength(flNamLen)]

\* the loop of _parseFileDirectory, from offset currentOffsetInDir on
RECURSIVE parseDirFrom(_, _, _, _)
parseDirFrom(buf, dirStartOffset, dirTotalBytes, currentOffsetInDir) ==
    IF currentOffsetInDir >= dirTotalBytes THEN <<>>
    ELSE LET o == dirStartOffset + currentOffsetInDir
         IN IF o >= byteLength(buf) THEN <<>>
            ELSE IF readUint8(buf, o) < 128 THEN <<>>
            ELSE LET entry == parseEntry(buf, o)
                 IN <<entry>> \o parseDirFrom(buf, dirStartOffset, dirTotalBytes,
                                              currentOffsetInDir + entry.entryLength)

parseFileDirectory(buf, vi) ==
    parseDirFrom(buf, vi.dirStartBlock * SECTOR_SIZE,
                 vi.dirLengthBlocks * SECTOR_SIZE, 0)

\* the padding byte that makes the length of an entry even
writePadding(buf, o, totalLength) ==
    IF totalLength % 2 # 0 THEN writeUint8(buf, o + totalLength, 0) ELSE buf

\* _writeFileDirectoryEntry
\* the four bytes stored for a type or creator: charCodeAt(i) || 0x3F
FourChars(str) ==
    [i \in 1..4 |-> IF i <= Len(str) /\ str[i] # 0 THEN str[i] ELSE 63]

writeFileDirectoryEntry(buf, e, o) ==
    LET nameLen == Min(Len(e.filename), 255)
        head == storeFields(buf, <<Store(o + 0, 1, e.flags), Store(o + 1, 1, e.version)>>)
        chars == writeChars(writeChars(head, o + 2, FourChars(e.type)),
                           o + 6, FourChars(e.creator))
        fields == storeFields(chars,
            <<Store(o + 10, 2, e.finderFlags),
              Store(o + 12, 4, e.iconPosition.v * 65536 + e.iconPosition.h),
              Store(o + 16, 2, e.folderNum),
              Store(o + 18, 4, e.fileNum),
              Store(o + 22, 2, e.dataForkStartBlock),
              Store(o + 24, 4, e.dataForkLogicalLength),
              Store(o + 28, 4, e.dataForkAllocLength),
              Store(o + 32, 2, e.resourceForkStartBlock),
              Store(o + 34, 4, e.resourceForkLogicalLength),
              Store(o + 38, 4, e.resourceForkAllocLength),
              Store(o + 42, 4, dateToMFSTimestamp(e.creationDate)),
              Store(o + 46, 4, dateToMFSTimestamp(e.modificationDate)),
              Store(o + 50, 1, nameLen)>>)
    IN writePadding(writeChars(fields, o + 51, SubSeq(e.filename, 1, nameLen)),
                    o, EntryHeaderLength + nameLen)

\* the number of bytes from offset to the end of the run holding it
runRest(buf, offset) ==
    LET r == buf[RunAt(buf, offset)]
    IN r.start + r.len - offset

\* the loop of _initializeFileDirectoryArea, from offset on.  Storing 0 over
\* a byte that is 0 changes nothing, so a run of zero bytes is passed in one
\* step: the loop goes on at the first even offset behind it.
RECURSIVE initDirFrom(_, _, _, _)
initDirFrom(buf, dirStartOffset, dirTotalBytes, offset) ==
    IF offset >= dirTotalBytes \/ dirStartOffset + offset >= byteLength(buf)
    THEN buf
    ELSE IF readUint8(buf, dirStartOffset + offset) = 0
         THEN LET rest == runRest(buf, dirStartOffset + offset)
              IN initDirFrom(buf, dirStartOffset, dirTotalBytes,
                             offset + 2 * ((rest + 1) \div 2))
         ELSE initDirFrom(writeUint8(buf, dirStartOffset + offset, 0),
                          dirStartOffset, dirTotalBytes, offset + 2)

initializeFileDirectoryArea(buf, vi) ==
    initDirFrom(buf, vi.dirStartBlock * SECTOR_SIZE,
                vi.dirLengthBlocks * SECTOR_SIZE, 0)

(***************************************************************************)
(* MFSVolume: formatting a new image.                                      *)
(***************************************************************************)
DefaultDirLengthBlocks == 12
MDBSizeBytes == 1024

\* the two size checks of _formatNewImage
formatRejects(sizeKB) ==
    \/ (sizeKB * 1024) % SECTOR_SIZE # 0
    \/ sizeKB * 1024 < BOOT_BLOCK_SECTORS * SECTOR_SIZE + MDBSizeBytes
                        + DEFAULT_ALLOC_BLOCK_SIZE_400K

\* a variant of formatVolumeInfo that numbers the files from 0
formatVolumeInfoFromZero(sizeKB, volumeName) ==
    [signature |-> MFS_SIGNATURE,
     creationDate |-> <<NowSeconds>>,
     modificationDate |-> <<NowSeconds>>,
     attributes |-> 0,
     numFiles |-> 0,
     dirStartBlock |-> 4,
     dirLengthBlocks |-> DefaultDirLengthBlocks,
     numAllocBlocks |-> sizeKB - 8,
     allocBlockSize |-> DEFAULT_ALLOC_BLOCK_SIZE_400K,
     clumpSize |-> DEFAULT_ALLOC_BLOCK_SIZE_400K * 8,
     allocBlockStartSector |-> 16,
     nextFileNum |-> 0,
     freeAllocBlocks |-> sizeKB - 8,
     volumeName |-> volumeName]

\* the volume info _formatNewImage builds before it writes the MDB
formatVolumeInfo(sizeKB, volumeName) ==
    LET allocBlockSize == DEFAULT_ALLOC_BLOCK_SIZE_400K
        dirStartBlock == BOOT_BLOCK_SECTORS + (MDBSizeBytes \div SECTOR_SIZE)
        allocBlockStartSector == dirStartBlock + DefaultDirLengthBlocks
        totalSectors == (sizeKB * 1024) \div SECTOR_SIZE
        numAllocBlocks == (totalSectors - allocBlockStartSector)
                              \div (allocBlockSize \div SECTOR_SIZE)
    IN [signature |-> MFS_SIGNATURE,
        creationDate |-> <<NowSeconds>>,
        modificationDate |-> <<NowSeconds>>,
        attributes |-> 0,
        numFiles |-> 0,
        dirStartBlock |-> dirStartBlock,
        dirLengthBlocks |-> DefaultDirLengthBlocks,
        numAllocBlocks |-> numAllocBlocks,
        allocBlockSize |-> allocBlockSize,
        clumpSize |-> Max(allocBlockSize * 8, allocBlockSize),
        allocBlockStartSector |-> allocBlockStartSector,
        nextFileNum |-> 1,
        freeAllocBlocks |-> numAllocBlocks,
        volumeName |-> volumeName]

\* the image buffer _formatNewImage leaves
formatImage(sizeKB, volumeName) ==
    LET vi == formatVolumeInfo(sizeKB, volumeName)
        zero == zeroBytes(sizeKB * 1024)
    IN initializeFileDirectoryArea(writeMDB(zero, vi, <<>>), vi)

\* "Untitled"
DefaultVolumeName == <<85, 110, 116, 105, 116, 108, 101, 100>>

DefaultSizeKB == 400

\* the fields of a handle whose constructor threw
NoVolume ==
    [imageBuffer |-> <<>>, volumeInfo |-> [null |-> TRUE], abm |-> <<>>,
     fileDirectory |-> <<>>]

\* every byte the ABM loop of _parseMDB reads lies inside the buffer
abmReadInBounds(buf, numAllocBlocks) ==
    \/ numAllocBlocks <= 0
    \/ abmDiskOffset + ((numAllocBlocks - 1) \div 2) * 3 + 2 < byteLength(buf)

\* the volume _formatNewImage leaves: the image, parsed again
formatNewImage(sizeKB, volumeName) ==
    IF formatRejects(sizeKB) THEN [err |-> "InvalidArgument", vol |-> NoVolume]
    ELSE LET buf == formatImage(sizeKB, volumeName)
             vi == parseVolumeInfo(buf)
         IN IF ~abmReadInBounds(buf, vi.numAllocBlocks)
            THEN [err |-> "RangeError", vol |-> NoVolume]
            ELSE [err |-> "",
                  vol |-> [imageBuffer |-> buf,
                           volumeInfo |-> vi,
                           abm |-> parseABM(buf, vi.numAllocBlocks),
                           fileDirectory |-> parseFileDirectory(buf, vi)]]

\* new MFSVolume({create: true, sizeKB, volumeName})
newVolume(sizeKB, volumeName) ==
    formatNewImage(IF sizeKB = 0 THEN DefaultSizeKB ELSE sizeKB,
                   IF volumeName = <<>> THEN DefaultVolumeName ELSE volumeName)

(***************************************************************************)
(* MFSVolume: the allocation block map.  MFS block number b (from 2 on) is *)
(* this.abm[b - 2], here abm[b - 1].                                       *)
(***************************************************************************)
EndOfChain == 1
FreeBlock == 0

\* the range check of _getABMEntry and _setABMEntry
validBlockNum(numAllocBlocks, mfsBlockNum) ==
    ~(mfsBlockNum < 2 \/ mfsBlockNum >= numAllocBlocks + 2)

getABMEntry(a, mfsBlockNum) == a[mfsBlockNum - 1]

setABMEntry(a, mfsBlockNum, value) == [a EXCEPT ![mfsBlockNum - 1] = value]

\* a variant of findFreeFrom that collects the highest free blocks
findFreeFromTop(a, numAllocBlocks, count, i, freeBlocks) ==
    LET free == {j \in 0..(numAllocBlocks - 1) : AbmAt(a, j) = FreeBlock}
        top == {j \in free : Cardinality({k \in free : k > j}) < count}
    IN [m \in 1..Cardinality(top) |->
          (CHOOSE j \in top : Cardinality({k \in top : k < j}) = m - 1) + 2]

\* the loop of _findFreeBlocks from ABM index i on, freeBlocks found so far
RECURSIVE findFreeFrom(_, _, _, _, _)
findFreeFrom(a, numAllocBlocks, count, i, freeBlocks) ==
    IF ~(i < numAllocBlocks /\ Len(freeBlocks) < count) THEN freeBlocks
    ELSE findFreeFrom(a, numAllocBlocks, count, i + 1,
                      IF AbmAt(a, i) = FreeBlock
                      THEN Append(freeBlocks, i + 2)
                      ELSE freeBlocks)

\* a variant of findFreeBlocks that takes the first blocks of the volume,
\* free or not
findFreeBlocksAny(a, numAllocBlocks, count) ==
    [i \in 1..Min(count, numAllocBlocks) |-> i + 1]

findFreeBlocks(a, numAllocBlocks, count) ==
    findFreeFrom(a, numAllocBlocks, count, 0, <<>>)

\* a variant of linkChain that leaves the entry of the last block as it was
linkChainNoEnd(a, blocks, i) ==
    [j \in 1..Len(a) |->
        IF \E k \in 1..(Len(blocks) - 1) : blocks[k] = j + 1
        THEN blocks[(CHOOSE k \in 1..(Len(blocks) - 1) : blocks[k] = j + 1) + 1]
        ELSE a[j]]

\* the linking loop of _allocateBlockChain, from position i of the list on
RECURSIVE linkChain(_, _, _)
linkChain(a, blocks, i) ==
    IF i > Len(blocks) THEN a
    ELSE linkChain(setABMEntry(a, blocks[i],
                               IF i < Len(blocks) THEN blocks[i + 1] ELSE EndOfChain),
                   blocks, i + 1)

\* _allocateBlockChain on volume v: err /= "" when it throws
\* a variant of allocateBlockChain that takes reserved blocks for free ones
allocateBlockChainReserved(v, numBlocks) ==
    LET a == [i \in 1..Len(v.abm) |->
                IF v.abm[i] = MaxABMValue THEN FreeBlock ELSE v.abm[i]]
        blocks == findFreeBlocks(a, v.volumeInfo.numAllocBlocks, numBlocks)
    IN IF numBlocks = 0 \/ Len(blocks) < numBlocks
       THEN [err |-> IF numBlocks = 0 THEN "" ELSE "DiskFull", vol |-> v,
             startBlock |-> 0, allocatedBlocks |-> <<>>]
       ELSE [err |-> "",
             vol |-> [v EXCEPT !.abm = linkChain(v.abm, blocks, 1),
                               !.volumeInfo.freeAllocBlocks = @ - numBlocks],
             startBlock |-> blocks[1],
             allocatedBlocks |-> blocks]

allocateBlockChain(v, numBlocks) ==
    IF numBlocks = 0
    THEN [err |-> "", vol |-> v, startBlock |-> 0, allocatedBlocks |-> <<>>]
    ELSE IF v.volumeInfo.freeAllocBlocks < numBlocks
    THEN [err |-> "DiskFull", vol |-> v, startBlock |-> 0, allocatedBlocks |-> <<>>]
    ELSE LET blocks == findFreeBlocks(v.abm, v.volumeInfo.numAllocBlocks, numBlocks)
         IN IF Len(blocks) < numBlocks
            THEN [err |-> "DiskFull", vol |-> v, startBlock |-> 0,
                  allocatedBlocks |-> <<>>]
            ELSE [err |-> "",
                  vol |-> [v EXCEPT !.abm = linkChain(v.abm, blocks, 1),
                                    !.volumeInfo.freeAllocBlocks = @ - numBlocks],
                  startBlock |-> blocks[1],
                  allocatedBlocks |-> blocks]

\* a variant of freeWalk that frees the first block of the chain only
freeWalkFirst(a, numAllocBlocks, current, freedCount) ==
    [err |-> "", abm |-> setABMEntry(a, current, FreeBlock),
     freedCount |-> freedCount + 1]

\* the loop of _freeBlockChain at block current, freedCount blocks freed
RECURSIVE freeWalk(_, _, _, _)
freeWalk(a, numAllocBlocks, current, freedCount) ==
    IF ~(current # EndOfChain /\ current # FreeBlock /\ current >= 2)
    THEN [err |-> "", abm |-> a, freedCount |-> freedCount]
    ELSE IF ~validBlockNum(numAllocBlocks, current)
    THEN [err |-> "InvalidBlock", abm |-> a, freedCount |-> freedCount]
    ELSE LET next == getABMEntry(a, current)
             a2 == setABMEntry(a, current, FreeBlock)
         IN IF next = EndOfChain \/ next = FreeBlock
               \/ next >= numAllocBlocks + 2 \/ next < 2
            THEN [err |-> "", abm |-> a2, freedCount |-> freedCount + 1]
            ELSE freeWalk(a2, numAllocBlocks, next, freedCount + 1)

\* a variant of freeBlockChain that leaves freeAllocBlocks as it was
freeBlockChainNoCount(v, startMFSBlockNum) ==
    IF startMFSBlockNum = 0 THEN [err |-> "", vol |-> v, freedCount |-> 0]
    ELSE LET w == freeWalk(v.abm, v.volumeInfo.numAllocBlocks, startMFSBlockNum, 0)
         IN [err |-> w.err, vol |-> [v EXCEPT !.abm = w.abm],
             freedCount |-> w.freedCount]

\* _freeBlockChain on volume v
freeBlockChain(v, startMFSBlockNum) ==
    IF startMFSBlockNum = 0 THEN [err |-> "", vol |-> v, freedCount |-> 0]
    ELSE LET w == freeWalk(v.abm, v.volumeInfo.numAllocBlocks, startMFSBlockNum, 0)
         IN IF w.err # ""
            THEN [err |-> w.err, vol |-> [v EXCEPT !.abm = w.abm], freedCount |-> 0]
            ELSE [err |-> "",
                  vol |-> [v EXCEPT !.abm = w.abm,
                                    !.volumeInfo.freeAllocBlocks = @ + w.freedCount],
                  freedCount |-> w.freedCount]

(***************************************************************************)
(* MFSVolume: directory lookup and the public operations.                  *)
(***************************************************************************)
\* _findFileEntryByName: the 1-based index of the first entry of that name, or 0
findFileEntryByName(dir, filename) ==
    LET hits == {i \in 1..Len(dir) : dir[i].filename = filename}
    IN IF hits = {} THEN 0 ELSE CHOOSE i \in hits : \A j \in hits : i <= j

RECURSIVE lastEntryEnd(_, _)
lastEntryEnd(dir, dirStartOffsetOnDisk) ==
    IF dir = <<>> THEN 0
    ELSE Max(lastEntryEnd(Tail(dir), dirStartOffsetOnDisk),
             (Head(dir).diskOffset - dirStartOffsetOnDisk) + Head(dir).entryLength)

\* _findFreeDirectorySlot: the disk offset of the new entry, or -1 when it throws
findFreeDirectorySlot(v) ==
    LET dirStartOffsetOnDisk == v.volumeInfo.dirStartBlock * SECTOR_SIZE
        dirTotalBytesOnDisk == v.volumeInfo.dirLengthBlocks * SECTOR_SIZE
        currentOffsetInDirArea == lastEntryEnd(v.fileDirectory, dirStartOffsetOnDisk)
    IN IF currentOffsetInDirArea + MinEntryLength <= dirTotalBytesOnDisk
       THEN dirStartOffsetOnDisk + currentOffsetInDirArea
       ELSE 0 - 1

\* the disk offset of MFS block mfsBlockNum
blockDiskOffset(vi, mfsBlockNum) ==
    (vi.allocBlockStartSector
        + (mfsBlockNum - 2) * (vi.allocBlockSize \div SECTOR_SIZE)) * SECTOR_SIZE

\* A caller's buffer is [tag, len]: len bytes, byte i being SourceByte(tag, i);
\* null and the empty buffer are [tag |-> 0, len |-> 0].
NullContent == [tag |-> 0, len |-> 0]
contentBytes(c) == IF c.len = 0 THEN <<>> ELSE <<DataRun(c.tag, 0, c.len)>>

\* the loop of _writeForkData from position i of the block list on
RECURSIVE writeForkFrom(_, _, _, _, _, _)
writeForkFrom(buf, vi, content, allocatedBlocks, i, bytesWritten) ==
    IF i > Len(allocatedBlocks) THEN buf
    ELSE LET n == Min(vi.allocBlockSize, content.len - bytesWritten)
             w == WriteRun(buf, blockDiskOffset(vi, allocatedBlocks[i]),
                           DataRun(content.tag, bytesWritten, n))
         IN IF bytesWritten + n >= content.len THEN w
            ELSE Strict(w, writeForkFrom(w, vi, content, allocatedBlocks, i + 1,
                                         bytesWritten + n))

\* a variant of writeForkData that stops after the first block
writeForkDataFirstBlock(buf, vi, content, allocatedBlocks) ==
    WriteRun(buf, blockDiskOffset(vi, allocatedBlocks[1]),
             DataRun(content.tag, 0, Min(vi.allocBlockSize, content.len)))

writeForkData(buf, vi, content, allocatedBlocks) ==
    writeForkFrom(buf, vi, content, allocatedBlocks, 1, 0)

\* a variant of blocksFor that rounds down
blocksForFloor(size, allocBlockSize) == size \div allocBlockSize

\* writeFile stores a fork when it has bytes and blocks
writeFork(buf, vi, content, allocatedBlocks) ==
    IF content.len > 0 /\ Len(allocatedBlocks) > 0
    THEN writeForkData(buf, vi, content, allocatedBlocks)
    ELSE buf

\* Math.ceil(size / allocBlockSize), 0 for an empty fork
blocksFor(size, allocBlockSize) ==
    IF size > 0 THEN (size + allocBlockSize - 1) \div allocBlockSize ELSE 0

\* a variant of RemoveAt that removes nothing
RemoveNone(seq, i) == seq

RemoveAt(seq, i) == SubSeq(seq, 1, i - 1) \o SubSeq(seq, i + 1, Len(seq))

\* a variant of deleteFile that counts a file down though none was found
deleteFileCounting(v, filename) ==
    [err |-> "NotFound",
     vol |-> [v EXCEPT !.volumeInfo.numFiles = @ - 1]]

\* deleteFile on volume v
deleteFile(v, filename) ==
    LET idx == findFileEntryByName(v.fileDirectory, filename)
    IN IF idx = 0 THEN [err |-> "NotFound", vol |-> v]
       ELSE LET entry == v.fileDirectory[idx]
                f1 == freeBlockChain(v, entry.dataForkStartBlock)
                f2 == freeBlockChain(f1.vol, entry.resourceForkStartBlock)
                currentFlags == readUint8(f2.vol.imageBuffer, entry.diskOffset)
                b1 == writeUint8(f2.vol.imageBuffer, entry.diskOffset,
                                 currentFlags % 128)
                vi == [f2.vol.volumeInfo EXCEPT !.numFiles = @ - 1,
                                                !.modificationDate = <<NowSeconds>>]
            IN IF f1.err # "" THEN [err |-> f1.err, vol |-> f1.vol]
               ELSE IF f2.err # "" THEN [err |-> f2.err, vol |-> f2.vol]
               ELSE Strict(<<f1, f2, b1>>,
                    [err |-> "",
                     vol |-> [imageBuffer |-> writeMDB(b1, vi, f2.vol.abm),
                              volumeInfo |-> vi,
                              abm |-> f2.vol.abm,
                              fileDirectory |-> RemoveAt(v.fileDirectory, idx)]])

\* the entry writeFile builds
newFileEntry(vi, filename, metadata, dataSize, rsrcSize, dataStart, rsrcStart, o) ==
    [flags |-> 128,
     version |-> 0,
     type |-> metadata.type,
     creator |-> metadata.creator,
     finderFlags |-> metadata.finderFlags,
     iconPosition |-> [v |-> 0, h |-> 0],
     folderNum |-> metadata.folderNum,
     fileNum |-> vi.nextFileNum,
     dataForkStartBlock |-> dataStart,
     dataForkLogicalLength |-> dataSize,
     dataForkAllocLength |-> blocksFor(dataSize, vi.allocBlockSize) * vi.allocBlockSize,
     resourceForkStartBlock |-> rsrcStart,
     resourceForkLogicalLength |-> rsrcSize,
     resourceForkAllocLength |-> blocksFor(rsrcSize, vi.allocBlockSize) * vi.allocBlockSize,
     creationDate |-> <<NowSeconds>>,
     modificationDate |-> <<NowSeconds>>,
     filename |-> filename,
     diskOffset |-> o,
     entryLength |-> entryLength(Min(Len(filename), 255))]

\* writeFile on volume v, after the existing file of that name is deleted
writeNewFile(v, filename, dataForkContent, resourceForkContent, metadata) ==
    LET dataSize == dataForkContent.len
        rsrcSize == resourceForkContent.len
        a1 == allocateBlockChain(v, blocksFor(dataSize, v.volumeInfo.allocBlockSize))
        a2 == allocateBlockChain(a1.vol, blocksFor(rsrcSize, v.volumeInfo.allocBlockSize))
        o == findFreeDirectorySlot(a2.vol)
        fileEntry == newFileEntry(a2.vol.volumeInfo, filename, metadata, dataSize,
                                  rsrcSize, a1.startBlock, a2.startBlock, o)
        b1 == writeFileDirectoryEntry(a2.vol.imageBuffer, fileEntry, o)
        b2 == writeFork(b1, v.volumeInfo, dataForkContent, a1.allocatedBlocks)
        b3 == writeFork(b2, v.volumeInfo, resourceForkContent, a2.allocatedBlocks)
        vi == [a2.vol.volumeInfo EXCEPT !.nextFileNum = @ + 1,
                                        !.numFiles = @ + 1,
                                        !.modificationDate = <<NowSeconds>>]
    IN IF a1.err # "" THEN [err |-> a1.err, vol |-> a1.vol]
       ELSE IF a2.err # "" THEN [err |-> a2.err, vol |-> a2.vol]
       ELSE IF o < 0 THEN [err |-> "DirectoryFull", vol |-> a2.vol]
       ELSE Strict(b3,
            [err |-> "",
             vol |-> [imageBuffer |-> writeMDB(b3, vi, a2.vol.abm),
                      volumeInfo |-> vi,
                      abm |-> a2.vol.abm,
                      fileDirectory |-> Append(a2.vol.fileDirectory, fileEntry)]])

\* writeFile on volume v, d being what deleting the existing file returned
writeAfterDelete(d, filename, dataForkContent, resourceForkContent, metadata) ==
    IF d.err # "" THEN d
    ELSE writeNewFile(d.vol, filename, dataForkContent, resourceForkContent, metadata)

\* a variant of writeFile that does not delete the existing file
writeFileNoDelete(v, filename, dataForkContent, resourceForkContent, metadata) ==
    writeNewFile(v, filename, dataForkContent, resourceForkContent, metadata)

\* a variant of writeFile that leaves nextFileNum as it was
writeFileSameNumber(v, filename, dataForkContent, resourceForkContent, metadata) ==
    LET d == IF findFileEntryByName(v.fileDirectory, filename) # 0
             THEN deleteFile(v, filename)
             ELSE [err |-> "", vol |-> v]
        w == writeAfterDelete(d, filename, dataForkContent, resourceForkContent, metadata)
    IN [w EXCEPT !.vol.volumeInfo.nextFileNum = v.volumeInfo.nextFileNum]

\* writeFile on volume v
writeFile(v, filename, dataForkContent, resourceForkContent, metadata) ==
    writeAfterDelete(IF findFileEntryByName(v.fileDirectory, filename) # 0
                     THEN deleteFile(v, filename)
                     ELSE [err |-> "", vol |-> v],
                     filename, dataForkContent, resourceForkContent, metadata)

\* createFile on volume v
MaxNameLength == 255

\* a variant of createFile that does not look at the creator
createFileAnyCreator(v, filename, metadata) ==
    IF Len(filename) = 0 \/ Len(filename) > MaxNameLength
    THEN [err |-> "InvalidArgument", vol |-> v]
    ELSE IF Len(metadata.type) # 4
    THEN [err |-> "InvalidArgument", vol |-> v]
    ELSE writeFile(v, filename, NullContent, NullContent, metadata)

createFile(v, filename, metadata) ==
    IF Len(filename) = 0 \/ Len(filename) > MaxNameLength
    THEN [err |-> "InvalidArgument", vol |-> v]
    ELSE IF Len(metadata.type) # 4 \/ Len(metadata.creator) # 4
    THEN [err |-> "InvalidArgument", vol |-> v]
    ELSE writeFile(v, filename, NullContent, NullContent, metadata)

\* the chain loop of readFile at block current; acc holds the bytesRead bytes
\* copied so far.  early: the out-of-bounds return inside the copy loop.
RECURSIVE readWalk(_, _, _, _, _, _)
readWalk(v, current, logicalLength, allocLength, bytesRead, acc) ==
    IF ~(current # EndOfChain /\ current # FreeBlock /\ current >= 2
         /\ bytesRead < logicalLength)
    THEN [err |-> "", early |-> FALSE, bytes |-> acc, bytesRead |-> bytesRead]
    ELSE LET vi == v.volumeInfo
             o == blockDiskOffset(vi, current)
             n == Min(vi.allocBlockSize, logicalLength - bytesRead)
             inBounds == o + n <= byteLength(v.imageBuffer)
                         /\ bytesRead + n <= allocLength
             acc2 == Concat(acc, Slice(v.imageBuffer, o, n))
         IN IF ~inBounds
            THEN [err |-> "", early |-> TRUE, bytes |-> acc, bytesRead |-> bytesRead]
            ELSE IF ~validBlockNum(vi.numAllocBlocks, current)
            THEN [err |-> "InvalidBlock", early |-> FALSE, bytes |-> <<>>,
                  bytesRead |-> 0]
            ELSE LET next == getABMEntry(v.abm, current)
                 IN IF next = EndOfChain
                    THEN [err |-> "", early |-> FALSE, bytes |-> acc2,
                          bytesRead |-> bytesRead + n]
                    ELSE IF next = FreeBlock \/ next < 2
                            \/ next >= vi.numAllocBlocks + 2
                    THEN [err |-> "Corrupted", early |-> FALSE, bytes |-> <<>>,
                          bytesRead |-> 0]
                    ELSE readWalk(v, next, logicalLength, allocLength,
                                  bytesRead + n, acc2)

\* the number of passes the chain loop of readFile makes from block current
RECURSIVE readSteps(_, _, _, _, _)
readSteps(v, current, logicalLength, allocLength, bytesRead) ==
    IF ~(current # EndOfChain /\ current # FreeBlock /\ current >= 2
         /\ bytesRead < logicalLength)
    THEN 0
    ELSE LET vi == v.volumeInfo
             n == Min(vi.allocBlockSize, logicalLength - bytesRead)
             inBounds == blockDiskOffset(vi, current) + n <= byteLength(v.imageBuffer)
                         /\ bytesRead + n <= allocLength
         IN IF ~inBounds \/ ~validBlockNum(vi.numAllocBlocks, current) THEN 1
            ELSE LET next == getABMEntry(v.abm, current)
                 IN IF next = EndOfChain \/ next = FreeBlock \/ next < 2
                       \/ next >= vi.numAllocBlocks + 2
                    THEN 1
                    ELSE 1 + readSteps(v, next, logicalLength, allocLength,
                                       bytesRead + n)

\* readFile on volume v: the bytes returned, err /= "" when it throws
readFile(v, filename, forkType) ==
    LET idx == findFileEntryByName(v.fileDirectory, filename)
    IN IF idx = 0 THEN [err |-> "NotFound", bytes |-> <<>>]
       ELSE IF forkType \notin {"data", "resource"}
       THEN [err |-> "InvalidArgument", bytes |-> <<>>]
       ELSE LET entry == v.fileDirectory[idx]
                startBlock == IF forkType = "data" THEN entry.dataForkStartBlock
                              ELSE entry.resourceForkStartBlock
                logicalLength == IF forkType = "data" THEN entry.dataForkLogicalLength
                                 ELSE entry.resourceForkLogicalLength
                allocLength == IF forkType = "data" THEN entry.dataForkAllocLength
                               ELSE entry.resourceForkAllocLength
                w == readWalk(v, startBlock, logicalLength, allocLength, 0, <<>>)
            IN IF startBlock = 0 \/ logicalLength = 0
               THEN [err |-> "", bytes |-> <<>>]
               ELSE IF w.err # "" THEN [err |-> w.err, bytes |-> <<>>]
               ELSE IF w.early THEN [err |-> "", bytes |-> w.bytes]
               ELSE [err |-> "",
                     bytes |-> Slice(Concat(w.bytes, zeroBytes(allocLength - w.bytesRead)),
                                     0, logicalLength)]

\* listFiles on volume v
listFiles(v) ==
    [i \in 1..Len(v.fileDirectory) |->
        LET entry == v.fileDirectory[i]
        IN [filename |-> entry.filename,
            type |-> entry.type,
            creator |-> entry.creator,
            dataForkSize |-> entry.dataForkLogicalLength,
            resourceForkSize |-> entry.resourceForkLogicalLength,
            creationDate |-> entry.creationDate,
            modificationDate |-> entry.modificationDate,
            fileNum |-> entry.fileNum,
            folderNum |-> entry.folderNum]]

\* the value that stands for null
NullInfo == [null |-> TRUE]

\* getFileInfo on volume v
getFileInfo(v, filename) ==
    LET idx == findFileEntryByName(v.fileDirectory, filename)
    IN IF idx = 0 THEN NullInfo
       ELSE LET entry == v.fileDirectory[idx]
            IN [filename |-> entry.filename,
                type |-> entry.type,
                creator |-> entry.creator,
                dataForkSize |-> entry.dataForkLogicalLength,
                resourceForkSize |-> entry.resourceForkLogicalLength,
                creationDate |-> entry.creationDate,
                modificationDate |-> entry.modificationDate,
                fileNum |-> entry.fileNum,
                folderNum |-> entry.folderNum,
                finderFlags |-> entry.finderFlags,
                iconPosition |-> entry.iconPosition,
                diskOffset |-> entry.diskOffset,
                entryLength |-> entry.entryLength]

\* new MFSVolume(arrayBuffer): the volume _loadExistingImage builds
loadExistingImage(arrayBuffer) ==
    LET vi == parseVolumeInfo(arrayBuffer)
    IN [imageBuffer |-> arrayBuffer,
        volumeInfo |-> vi,
        abm |-> parseABM(arrayBuffer, vi.numAllocBlocks),
        fileDirectory |-> parseFileDirectory(arrayBuffer, vi)]

\* getDiskImage(): the handle's buffer itself
getDiskImage(v) == v.imageBuffer

(***************************************************************************)
(* macpaint.js, class PackBits.  A Uint8Array is the sequence of its       *)
(* bytes, element i of the array being element i + 1 of the sequence.      *)
(***************************************************************************)
SCANLINE_BYTES == 72

\* DataView.getInt8 of a byte, and the byte a Uint8Array keeps of a number
toInt8(b) == IF b >= 128 THEN b - 256 ELSE b
toUint8(v) == v % 256

\* n bytes of value v
Fill(v, n) == [k \in 1..n |-> v]

\* the output array: the bytes produced, the rest of the 72 still 0
Output72(output) ==
    [k \in 1..SCANLINE_BYTES |-> IF k <= Len(output) THEN output[k] ELSE 0]

\* a variant of repeatCount that counts one less
repeatCountNegated(headerByte) == 0 - headerByte

\* the count of a repeat run
repeatCount(headerByte) == 1 - headerByte

\* one pass of the loop of decompressScanline: output holds the outputIndex
\* bytes produced so far, done says that the loop was left
decompressStep(input, s) ==
    IF s.done THEN s
    ELSE IF Len(s.output) >= SCANLINE_BYTES THEN [s EXCEPT !.done = TRUE]
    ELSE IF s.currentOffset >= Len(input)
    THEN [s EXCEPT !.done = TRUE, !.error = "UnexpectedEnd"]
    ELSE LET headerByte == toInt8(input[s.currentOffset + 1])
             next == s.currentOffset + 1
             failed(e) == [s EXCEPT !.done = TRUE, !.error = e,
                                    !.currentOffset = next]
         IN IF headerByte >= 0
            THEN LET count == headerByte + 1
                 IN IF Len(s.output) + count > SCANLINE_BYTES
                    THEN failed("LiteralExceedsScanline")
                    ELSE IF next + count > Len(input)
                    THEN failed("LiteralPastInput")
                    ELSE [s EXCEPT !.output = @ \o SubSeq(input, next + 1, next + count),
                                   !.currentOffset = next + count]
            ELSE IF headerByte >= 0 - 127 /\ headerByte <= 0 - 1
            THEN LET count == repeatCount(headerByte)
                 IN IF Len(s.output) + count > SCANLINE_BYTES
                    THEN failed("RepeatExceedsScanline")
                    ELSE IF next >= Len(input)
                    THEN failed("RepeatPastInput")
                    ELSE [s EXCEPT !.output = @ \o Fill(input[next + 1], count),
                                   !.currentOffset = next + 1]
            ELSE [s EXCEPT !.currentOffset = next]

\* the loop of decompressScanline, left after at most passes passes
RECURSIVE decompressLoop(_, _, _)
decompressLoop(input, s, passes) ==
    IF s.done \/ passes <= 0 THEN s
    ELSE IF passes = 1 THEN decompressStep(input, s)
    ELSE decompressLoop(input, decompressLoop(input, s, passes \div 2),
                        passes - (passes \div 2))

\* PackBits.decompressScanline(inputView, initialOffset); getInt8 at a
\* negative offset throws, after currentOffset was counted up.  Every pass
\* but the last reads at least one byte of the input.
decompressScanline(input, initialOffset) ==
    IF initialOffset < 0 /\ Len(input) > initialOffset
    THEN [data |-> Output72(<<>>), bytesRead |-> 1, error |-> "Exception"]
    ELSE LET s == decompressLoop(input,
                                 [output |-> <<>>, currentOffset |-> initialOffset,
                                  error |-> "", done |-> FALSE],
                                 Len(input) - initialOffset + 2)
         IN [data |-> Output72(s.output),
             bytesRead |-> s.currentOffset - initialOffset,
             error |-> IF s.error = "" /\ Len(s.output) # SCANLINE_BYTES
                       THEN "NotScanlineLength" ELSE s.error]

\* a variant of repeatControl that is one too low
repeatControlOneLess(runLength) == 0 - runLength

\* the control byte of a repeat run
repeatControl(runLength) == 0 - (runLength - 1)

\* the loop that finds a repeat run at i: it counts runLength up while the
\* byte after the run equals the first and the run is shorter than 128
repeatRun(scanlineData, i, runLength) ==
    LET continues(r) == /\ i + r < Len(scanlineData)
                        /\ scanlineData[i + 1] = scanlineData[i + r + 1]
                        /\ r < 128
        left == {r \in runLength..128 : ~continues(r)}
    IN CHOOSE r \in left : \A q \in left : r <= q

\* the loop that finds the end of the literal run from literalStart: it
\* counts i up until the data ends, a repeat starts or 128 bytes are taken
literalEnd(scanlineData, literalStart, i) ==
    LET stops(j) == \/ j >= Len(scanlineData)
                    \/ /\ j + 1 < Len(scanlineData)
                       /\ scanlineData[j + 1] = scanlineData[j + 2]
                    \/ j - literalStart >= 127
        left == {j \in i..Len(scanlineData) : stops(j)}
    IN CHOOSE j \in left : \A q \in left : j <= q

\* one pass of the outer loop of compressScanline: compressed holds the
\* numbers pushed so far
compressStep(scanlineData, s) ==
    IF s.i >= Len(scanlineData) THEN s
    ELSE LET runLength == repeatRun(scanlineData, s.i, 1)
         IN IF runLength > 1
            THEN [i |-> s.i + runLength,
                  compressed |-> s.compressed \o <<repeatControl(runLength),
                                                   scanlineData[s.i + 1]>>]
            ELSE LET end == literalEnd(scanlineData, s.i, s.i + 1)
                     literalLength == end - s.i
                 IN [i |-> end,
                     compressed |-> s.compressed \o <<literalLength - 1>>
                                      \o SubSeq(scanlineData, s.i + 1, end)]

\* the outer loop of compressScanline, left after at most passes passes
RECURSIVE compressLoop(_, _, _)
compressLoop(scanlineData, s, passes) ==
    IF s.i >= Len(scanlineData) \/ passes <= 0 THEN s
    ELSE IF passes = 1 THEN compressStep(scanlineData, s)
    ELSE compressLoop(scanlineData, compressLoop(scanlineData, s, passes \div 2),
                      passes - (passes \div 2))

\* PackBits.compressScanline(scanlineData): new Uint8Array(compressed).
\* Every pass takes at least one byte of the scanline.
compressScanline(scanlineData) ==
    IF Len(scanlineData) # SCANLINE_BYTES
    THEN [err |-> "InvalidArgument", data |-> <<>>]
    ELSE LET compressed == compressLoop(scanlineData,
                                        [i |-> 0, compressed |-> <<>>],
                                        Len(scanlineData)).compressed
         IN [err |-> "",
             data |-> Array([k \in 1..Len(compressed) |-> toUint8(compressed[k])])]

(***************************************************************************)
(* macpaint.js, the dithering strategies.  A GrayscaleDataObject is a      *)
(* record [data, width, height] whose data has width * height elements of  *)
(* 0..255.  A Float32Array element is the integer nearest to Scale times   *)
(* its value, which is the precision a Float32Array has for the values    *)
(* from 128 to 255; a share of the error is rounded to it.  apply()        *)
(* returns, besides the OneBitDataObject, the caller's buffer as the call  *)
(* leaves it (input).                                                      *)
(***************************************************************************)
Scale == 65536

CeilDiv8(n) == (n + 7) \div 8

\* currentByte |= (1 << (7 - bitPosition)), for the bits of byte k (from 0)
\* of a row of bits; the last byte may be partial
PackedByte(bits, k) ==
    LET bit(j) == IF 8 * k + j + 1 <= Len(bits) THEN bits[8 * k + j + 1] ELSE 0
    IN 128 * bit(0) + 64 * bit(1) + 32 * bit(2) + 16 * bit(3)
         + 8 * bit(4) + 4 * bit(5) + 2 * bit(6) + bit(7)

\* the Uint8Array(Math.ceil(width * height / 8)) the strategies fill
Packed(bits, width, height) ==
    Array([k \in 1..CeilDiv8(width * height) |-> PackedByte(bits, k - 1)])

\* new ThresholdStrategy(options)
ThresholdStrategy(thresholdValue) ==
    [kind |-> "Threshold", thresholdValue |-> thresholdValue]

\* ThresholdStrategy.apply(grayscaleData)
ThresholdApply(strategy, grayscaleData) ==
    LET gsData == grayscaleData.data
        bits == Array([i \in 1..Len(gsData) |->
                         IF gsData[i] < strategy.thresholdValue THEN 1 ELSE 0])
    IN [strategy |-> strategy, input |-> gsData,
        data |-> Packed(bits, grayscaleData.width, grayscaleData.height),
        width |-> grayscaleData.width, height |-> grayscaleData.height]

\* new Float32Array(gsDataInput): a copy
Float32Array(gsDataInput) ==
    Array([i \in 1..Len(gsDataInput) |-> gsDataInput[i] * Scale])

\* the neighbours that receive a share of the error, <<dx, dy, num, den>>
AtkinsonTaps ==
    << <<1, 0, 1, 8>>, <<2, 0, 1, 8>>, <<0 - 1, 1, 1, 8>>, <<0, 1, 1, 8>>,
       <<1, 1, 1, 8>>, <<0, 2, 1, 8>> >>
FloydSteinbergTaps ==
    << <<1, 0, 7, 16>>, <<0 - 1, 1, 3, 16>>, <<0, 1, 5, 16>>, <<1, 1, 1, 16>> >>

\* a variant of errorTarget that distributes the error in the caller's buffer
errorTargetInput(heap) == "input"

\* the buffer that receives the error: the copy
errorTarget(heap) == "gsData"

\* gsData[(y + dy) * width + (x + dx)] += share, for the taps from n on
RECURSIVE distribute(_, _, _, _, _, _, _, _)
distribute(heap, taps, n, quantError, width, height, x, y) ==
    IF n > Len(taps) THEN heap
    ELSE LET t == taps[n]
             tx == x + t[1]
             ty == y + t[2]
             share == (2 * quantError * t[3] + t[4]) \div (2 * t[4])
             index == ty * width + tx + 1
             buffer == errorTarget(heap)
         IN distribute(IF tx >= 0 /\ tx < width /\ ty < height
                       THEN [heap EXCEPT ![buffer][index] = @ + share]
                       ELSE heap,
                       taps, n + 1, quantError, width, height, x, y)

\* the body of the loops over y and x: the bit of pixel (x, y) and the heap
\* after the error was distributed
ditherPixel(heap, taps, width, height, x, y) ==
    LET value == heap.gsData[y * width + x + 1]
        oldPixel == IF value < 0 THEN 0
                    ELSE IF value > 255 * Scale THEN 255 * Scale ELSE value
        newPixelValue == IF oldPixel < 128 * Scale THEN 0 ELSE 255 * Scale
        pntgBit == IF oldPixel < 128 * Scale THEN 1 ELSE 0
        quantError == oldPixel - newPixelValue
    IN [heap |-> IF quantError = 0 THEN heap
                 ELSE distribute(heap, taps, 1, quantError, width, height, x, y),
        bit |-> pntgBit]

\* the loops over y and x, pixels lo..hi in raster order
RECURSIVE ditherPixels(_, _, _, _, _, _)
ditherPixels(heap, taps, width, height, lo, hi) ==
    IF lo > hi THEN [heap |-> heap, bits |-> <<>>]
    ELSE IF lo = hi
    THEN LET p == ditherPixel(heap, taps, width, height, lo % width, lo \div width)
         IN [heap |-> p.heap, bits |-> <<p.bit>>]
    ELSE LET mid == (lo + hi) \div 2
             left == ditherPixels(heap, taps, width, height, lo, mid)
             right == ditherPixels(left.heap, taps, width, height, mid + 1, hi)
         IN Strict(left, [heap |-> right.heap, bits |-> left.bits \o right.bits])

\* AtkinsonDitheringStrategy.apply and FloydSteinbergDitheringStrategy.apply
DiffusionApply(strategy, taps, grayscaleData) ==
    LET width == grayscaleData.width
        height == grayscaleData.height
        heap == [input |-> grayscaleData.data,
                 gsData |-> Float32Array(grayscaleData.data)]
        done == ditherPixels(heap, taps, width, height, 0, width * height - 1)
    IN [strategy |-> strategy, input |-> done.heap.input,
        data |-> Packed(done.bits, width, height),
        width |-> width, height |-> height]

AtkinsonDitheringStrategy == [kind |-> "Atkinson"]
FloydSteinbergDitheringStrategy == [kind |-> "FloydSteinberg"]

\* BayerDitheringStrategy._initializeBayerMatrix()
BayerMatrix(matrixSize) ==
    IF matrixSize = 2
    THEN << <<0, 2>>, <<3, 1>> >>
    ELSE IF matrixSize = 8
    THEN << <<0, 32, 8, 40, 2, 34, 10, 42>>,
            <<48, 16, 56, 24, 50, 18, 58, 26>>,
            <<12, 44, 4, 36, 14, 46, 6, 38>>,
            <<60, 28, 52, 20, 62, 30, 54, 22>>,
            <<3, 35, 11, 43, 1, 33, 9, 41>>,
            <<51, 19, 59, 27, 49, 17, 57, 25>>,
            <<15, 47, 7, 39, 13, 45, 5, 37>>,
            <<63, 31, 55, 23, 61, 29, 53, 21>> >>
    ELSE << <<0, 8, 2, 10>>, <<12, 4, 14, 6>>, <<3, 11, 1, 9>>, <<15, 7, 13, 5>> >>

\* new BayerDitheringStrategy(options): options.matrixSize || 4, and an
\* unsupported size defaults to 4
BayerDitheringStrategy(matrixSize) ==
    LET n == IF matrixSize \in {2, 4, 8} THEN matrixSize ELSE 4
    IN [kind |-> "Bayer", matrixSize |-> n, bayerMatrix |-> BayerMatrix(n),
        normalizationFactor |-> n * n]

\* grayscaleValue / 255.0 <= bayerMatrixValue / normalizationFactor
BayerBit(strategy, grayscaleValue, x, y) ==
    LET n == strategy.matrixSize
        bayerMatrixValue == strategy.bayerMatrix[(y % n) + 1][(x % n) + 1]
    IN IF grayscaleValue * strategy.normalizationFactor <= bayerMatrixValue * 255
       THEN 1 ELSE 0

\* BayerDitheringStrategy.apply(grayscaleData)
BayerApply(strategy, grayscaleData) ==
    LET gsData == grayscaleData.data
        width == grayscaleData.width
        height == grayscaleData.height
        bits == Array([i \in 1..(width * height) |->
                         BayerBit(strategy, gsData[i], (i - 1) % width,
                                  (i - 1) \div width)])
    IN [strategy |-> strategy, input |-> gsData,
        data |-> Packed(bits, width, height),
        width |-> width, height |-> height]

\* strategy.apply(grayscaleData)
apply(strategy, grayscaleData) ==
    IF strategy.kind = "Threshold" THEN ThresholdApply(strategy, grayscaleData)
    ELSE IF strategy.kind = "Bayer" THEN BayerApply(strategy, grayscaleData)
    ELSE IF strategy.kind = "Atkinson"
    THEN DiffusionApply(strategy, AtkinsonTaps, grayscaleData)
    ELSE DiffusionApply(strategy, FloydSteinbergTaps, grayscaleData)

(***************************************************************************)
(* macpaint.js, ImageUtils and class MacPaintImage.  The data of an        *)
(* ImageDataObject is kept as bands, from the top row down: a band is a    *)
(* number of consecutive rows that hold the same line, a line being the    *)
(* sequence of its pixels <<R, G, B, A>>.  Neighbouring bands hold         *)
(* different lines, so that equal rasters are equal values.  An optional   *)
(* property of an options object is <<>> when absent and <<value>> when    *)
(* present.                                                                *)
(***************************************************************************)
PNTG_WIDTH == 576
PNTG_HEIGHT == 720
BYTES_PER_SCANLINE_UNCOMPRESSED == PNTG_WIDTH \div 8
HEADER_BYTES == 512
MACBINARY_BYTES == 128
PATTERN_COUNT == 38
PATTERN_BYTES == 8

WhitePixel == <<255, 255, 255, 255>>
BlackPixel == <<0, 0, 0, 255>>

Band(rows, line) == [rows |-> rows, line |-> line]

\* two runs of bands, one below the other
joinBands(a, b) ==
    IF Len(a) = 0 THEN b
    ELSE IF Len(b) = 0 THEN a
    ELSE IF a[Len(a)].line = b[1].line
    THEN SubSeq(a, 1, Len(a) - 1)
           \o <<Band(a[Len(a)].rows + b[1].rows, b[1].line)>>
           \o SubSeq(b, 2, Len(b))
    ELSE a \o b

\* the bands of rows from..to - 1 of a raster whose row y holds line(y) and
\* whose rows change only at the rows of breaks
RECURSIVE BandsBetween(_, _, _, _)
BandsBetween(line(_), breaks, lo, hi) ==
    IF lo > hi THEN <<>>
    ELSE IF lo = hi
    THEN <<Band(breaks[lo + 1] - breaks[lo], Array(line(breaks[lo])))>>
    ELSE LET mid == (lo + hi) \div 2
             left == BandsBetween(line, breaks, lo, mid)
         IN joinBands(left,
                      BandsBetween(line, Strict(left, breaks), mid + 1, hi))

\* the elements of a set of numbers that lie in lo..hi, in ascending order
RECURSIVE Ascending(_, _, _)
Ascending(S, lo, hi) ==
    IF lo > hi THEN <<>>
    ELSE IF lo = hi THEN IF lo \in S THEN <<lo>> ELSE <<>>
    ELSE LET left == Ascending(S, lo, (lo + hi) \div 2)
         IN Strict(left, left \o Ascending(S, (lo + hi) \div 2 + 1, hi))

\* a raster of height rows that holds line(y) in row y, its rows changing
\* only at the rows of changes
Raster(width, height, line(_), changes) ==
    LET breaks == Ascending(changes \cup {0, height}, 0, height)
    IN [width |-> width, height |-> height,
        bands |-> IF height <= 0 THEN <<>>
                  ELSE BandsBetween(line, breaks, 1, Len(breaks) - 1)]

\* the rows at which the bands of an image start, and the row past the last
RECURSIVE BandRows(_, _, _)
BandRows(bands, lo, hi) ==
    IF lo > hi THEN 0
    ELSE IF lo = hi THEN bands[lo].rows
    ELSE BandRows(bands, lo, (lo + hi) \div 2)
           + BandRows(bands, (lo + hi) \div 2 + 1, hi)

BandStarts(image) ==
    {BandRows(image.bands, 1, k) : k \in 0..Len(image.bands)}

\* the line of row y of an image
LineAt(image, y) ==
    LET k == CHOOSE i \in 1..Len(image.bands) :
               /\ BandRows(image.bands, 1, i - 1) <= y
               /\ y < BandRows(image.bands, 1, i)
    IN image.bands[k].line

\* ImageUtils.toGrayscale of one pixel: Math.round of the Rec.709 luma
grayOf(px) == (2126 * px[1] + 7152 * px[2] + 722 * px[3] + 5000) \div 10000

\* ImageUtils.toGrayscale(imageDataObject): the lines hold gray values
toGrayscale(imageDataObject) ==
    [width |-> imageDataObject.width, height |-> imageDataObject.height,
     bands |-> Array([k \in 1..Len(imageDataObject.bands) |->
                        Band(imageDataObject.bands[k].rows,
                             Array([i \in 1..Len(imageDataObject.bands[k].line) |->
                                      grayOf(imageDataObject.bands[k].line[i])]))])]

\* ImageUtils.crop(imageDataObject, cropOpts)
crop(imageDataObject, cropOpts) ==
    LET x == cropOpts.x
        y == cropOpts.y
        cropWidth == cropOpts.width
        cropHeight == cropOpts.height
        line(r) == SubSeq(LineAt(imageDataObject, y + r), x + 1, x + cropWidth)
    IN IF \/ x < 0 \/ y < 0 \/ x + cropWidth > imageDataObject.width
          \/ y + cropHeight > imageDataObject.height
       THEN [err |-> "Crop dimensions are out of bounds.", image |-> imageDataObject]
       ELSE IF cropWidth <= 0 \/ cropHeight <= 0
       THEN [err |-> "Crop width and height must be greater than 0.",
             image |-> imageDataObject]
       ELSE [err |-> "",
             image |-> Raster(cropWidth, cropHeight, line,
                              {s - y : s \in BandStarts(imageDataObject)})]

\* ImageUtils.pad(imageDataObject, padOpts, targetWidth, targetHeight)
pad(imageDataObject, padOpts, targetWidth, targetHeight) ==
    LET x == padOpts.x
        y == padOpts.y
        fill == IF padOpts.color = "white" THEN WhitePixel ELSE BlackPixel
        filled == Array([c \in 1..targetWidth |-> fill])
        line(r) ==
            IF r < y \/ r >= y + imageDataObject.height THEN filled
            ELSE LET source == LineAt(imageDataObject, r - y)
                 IN [c \in 1..targetWidth |->
                       IF c - 1 >= x /\ c - 1 < x + imageDataObject.width
                       THEN source[c - x] ELSE fill]
    IN Raster(targetWidth, targetHeight, line,
              {s + y : s \in BandStarts(imageDataObject)})

\* ImageUtils.scaleBilinear(imageDataObject, targetWidth, targetHeight), by
\* the manual interpolation used where no canvas exists.  Pixel j of row i
\* lies rx / targetWidth past source column px and ry / targetHeight past
\* source row py; the channel values are computed exactly.
scaleBilinear(imageDataObject, targetWidth, targetHeight) ==
    LET sourceWidth == imageDataObject.width
        sourceHeight == imageDataObject.height
        line(i) ==
            LET py == (i * sourceHeight) \div targetHeight
                ry == (i * sourceHeight) % targetHeight
                upper == LineAt(imageDataObject, py)
                lower == LineAt(imageDataObject,
                                IF py + 1 < sourceHeight THEN py + 1 ELSE py)
            IN [c \in 1..targetWidth |->
                  LET px == ((c - 1) * sourceWidth) \div targetWidth
                      rx == ((c - 1) * sourceWidth) % targetWidth
                      next == IF px + 1 < sourceWidth THEN px + 1 ELSE px
                  IN [k \in 1..4 |->
                        LET P1 == upper[px + 1][k] * (targetWidth - rx)
                                    + upper[next + 1][k] * rx
                            P2 == lower[px + 1][k] * (targetWidth - rx)
                                    + lower[next + 1][k] * rx
                        IN (2 * (P1 * (targetHeight - ry) + P2 * ry)
                              + targetWidth * targetHeight)
                             \div (2 * targetWidth * targetHeight)]]
    IN IF sourceWidth = targetWidth /\ sourceHeight = targetHeight
       THEN imageDataObject
       ELSE Raster(targetWidth, targetHeight, line,
                   IF sourceHeight = 1 THEN {0} ELSE 0..(targetHeight - 1))

\* MacPaintImage._getDefaultPatterns(): 38 empty 8-byte patterns
getDefaultPatterns == [i \in 1..PATTERN_COUNT |-> [j \in 1..PATTERN_BYTES |-> 0]]

\* new MacPaintImage(imageDataObject, options)
MacPaintImage(imageDataObject, options) ==
    [imageData |-> imageDataObject,
     writeOptions |->
         [options EXCEPT !.ditheringStrategy =
              IF Len(@) = 0 THEN <<AtkinsonDitheringStrategy>> ELSE @],
     patterns |-> IF Len(options.patterns) = 0 THEN getDefaultPatterns
                  ELSE options.patterns[1]]

\* an options object without properties
NoOptions == [patterns |-> <<>>, crop |-> <<>>, padding |-> <<>>,
              ditheringStrategy |-> <<>>]

NoImage == [width |-> 0, height |-> 0, bands |-> <<>>]

\* the MacBinary header detection of fromArrayBuffer
isMacBinary(view) ==
    /\ Len(view) >= MACBINARY_BYTES
    /\ view[1] = 0
    /\ view[2] >= 1 /\ view[2] <= 63
    /\ SubSeq(view, 66, 69) = <<80, 78, 84, 71>>

\* a variant of headerMissing that forgets the MacBinary header
headerMissingAtStart(offset, length) == HEADER_BYTES > length

\* the check for an input too short to hold the application header
headerMissing(offset, length) == offset + HEADER_BYTES > length

\* view.getUint32(offset, false)
getUint32(view, offset) ==
    ((view[offset + 1] * 256 + view[offset + 2]) * 256 + view[offset + 3]) * 256
      + view[offset + 4]

\* a variant of scanlinePixels that takes the least significant bit for the
\* leftmost pixel
scanlinePixelsLowBitFirst(scanlineData) ==
    Array([i \in 1..(8 * Len(scanlineData)) |->
             IF (scanlineData[((i - 1) \div 8) + 1] \div (2 ^ ((i - 1) % 8))) % 2 = 1
             THEN BlackPixel ELSE WhitePixel])

\* the pixels of a decompressed scanline: the most significant bit is the
\* leftmost pixel, a set bit is black
scanlinePixels(scanlineData) ==
    Array([i \in 1..(8 * Len(scanlineData)) |->
             IF (scanlineData[((i - 1) \div 8) + 1] \div (2 ^ (7 - ((i - 1) % 8)))) % 2 = 1
             THEN BlackPixel ELSE WhitePixel])

\* the loop over the scanlines y .. y + count - 1 of fromArrayBuffer, the
\* data starting at offset: the bands of decompressed scanlines
RECURSIVE readScanlines(_, _, _, _)
readScanlines(view, offset, y, count) ==
    IF count = 1
    THEN LET decompressedScanlineResult == decompressScanline(view, offset)
         IN IF decompressedScanlineResult.error # ""
            THEN [err |-> "Error decompressing scanline", y |-> y,
                  bands |-> <<>>, offset |-> offset]
            ELSE [err |-> "", y |-> y,
                  bands |-> <<Band(1, Array(decompressedScanlineResult.data))>>,
                  offset |-> offset + decompressedScanlineResult.bytesRead]
    ELSE LET half == count \div 2
             upper == readScanlines(view, offset, y, half)
         IN IF upper.err # "" THEN upper
            ELSE LET lower == readScanlines(view, upper.offset, y + half,
                                            count - half)
                 IN IF lower.err # "" THEN lower
                    ELSE [err |-> "", y |-> y,
                          bands |-> joinBands(upper.bands, lower.bands),
                          offset |-> lower.offset]

\* MacPaintImage.fromArrayBuffer(arrayBuffer): the instance, whether the
\* marker was warned about, and the offset the scanline loop ended at
fromArrayBuffer(arrayBuffer) ==
    LET start == IF isMacBinary(arrayBuffer) THEN MACBINARY_BYTES ELSE 0
        failed(e) == [err |-> e, warned |-> FALSE, offset |-> start,
                      instance |-> MacPaintImage(NoImage, NoOptions)]
    IN IF headerMissing(start, Len(arrayBuffer))
       THEN failed("File too short to contain MacPaint application header.")
       ELSE LET marker1 == getUint32(arrayBuffer, start)
                parsedPatterns ==
                    [i \in 1..PATTERN_COUNT |->
                       [j \in 1..PATTERN_BYTES |->
                          arrayBuffer[start + 4 + (i - 1) * PATTERN_BYTES + j]]]
                lines == readScanlines(arrayBuffer, start + HEADER_BYTES, 0,
                                       PNTG_HEIGHT)
                finalImageData ==
                    [width |-> PNTG_WIDTH, height |-> PNTG_HEIGHT,
                     bands |-> Array([k \in 1..Len(lines.bands) |->
                                        Band(lines.bands[k].rows,
                                             scanlinePixels(lines.bands[k].line))])]
            IN IF lines.err # ""
               THEN [failed(lines.err) EXCEPT !.warned = marker1 # 2,
                                              !.offset = lines.offset]
               ELSE [err |-> "", warned |-> marker1 # 2, offset |-> lines.offset,
                     instance |->
                         [MacPaintImage(finalImageData, NoOptions)
                            EXCEPT !.patterns = parsedPatterns]]

\* The data of the OneBitDataObject of a 576 x 720 raster is kept as bands
\* too: a band holds rows rows, row k of it (from 0) holding the packed line
\* lines[(k % Len(lines)) + 1].
OneBitBand(rows, lines) == [rows |-> rows, lines |-> lines]

\* oneBitData.length
RECURSIVE oneBitLength(_, _, _)
oneBitLength(bands, lo, hi) ==
    IF lo > hi THEN 0
    ELSE IF lo = hi THEN bands[lo].rows * Len(bands[lo].lines[1])
    ELSE oneBitLength(bands, lo, (lo + hi) \div 2)
           + oneBitLength(bands, (lo + hi) \div 2 + 1, hi)

\* ThresholdStrategy.apply and BayerDitheringStrategy.apply on the rows of
\* a band that starts at row y: each row is packed on its own, the width
\* being a multiple of 8, and the rows of a band repeat with the period of
\* the matrix
pointwiseBand(strategy, band, width, y) ==
    IF strategy.kind = "Threshold"
    THEN OneBitBand(band.rows,
             <<ThresholdApply(strategy, [data |-> band.line, width |-> width,
                                         height |-> 1]).data>>)
    ELSE LET n == IF band.rows < strategy.matrixSize THEN band.rows
                  ELSE strategy.matrixSize
         IN OneBitBand(band.rows,
                Array([m \in 1..n |->
                         Packed(Array([i \in 1..width |->
                                         BayerBit(strategy, band.line[i], i - 1,
                                                  y + m - 1)]),
                                width, 1)]))

\* the loops of the error-diffusion strategies over the pixels of one row:
\* the working copy holds the row with the error passed to it (next), and
\* below it the error passed to the two rows after it (after)
diffuseRow(taps, width, line, carry) ==
    LET heap == [input |-> <<>>,
                 gsData |-> Array([i \in 1..(3 * width) |->
                                     IF i <= width THEN line[i] * Scale + carry.next[i]
                                     ELSE IF i <= 2 * width THEN carry.after[i - width]
                                     ELSE 0])]
        done == ditherPixels(heap, taps, width, 3, 0, width - 1)
    IN [bytes |-> Packed(done.bits, width, 1),
        carry |-> [next |-> SubSeq(done.heap.gsData, width + 1, 2 * width),
                   after |-> SubSeq(done.heap.gsData, 2 * width + 1, 3 * width)]]

\* the rows of one band: once a row passes on the error it received, the
\* rows below it in the band come out the same
RECURSIVE diffuseBand(_, _, _, _, _, _)
diffuseBand(taps, width, line, rows, carry, out) ==
    IF rows = 0 THEN [bands |-> out, carry |-> carry]
    ELSE LET row == diffuseRow(taps, width, line, carry)
         IN IF row.carry = carry
            THEN [bands |-> out \o <<OneBitBand(rows, <<row.bytes>>)>>,
                  carry |-> carry]
            ELSE diffuseBand(taps, width, line, rows - 1, row.carry,
                             Strict(row.bytes, out \o <<OneBitBand(1, <<row.bytes>>)>>))

RECURSIVE diffuseBands(_, _, _, _, _, _)
diffuseBands(taps, width, bands, lo, hi, carry) ==
    IF lo > hi THEN [bands |-> <<>>, carry |-> carry]
    ELSE IF lo = hi
    THEN diffuseBand(taps, width, bands[lo].line, bands[lo].rows, carry, <<>>)
    ELSE LET mid == (lo + hi) \div 2
             upper == diffuseBands(taps, width, bands, lo, mid, carry)
             lower == diffuseBands(taps, width, bands, mid + 1, hi, upper.carry)
         IN Strict(upper, [bands |-> upper.bands \o lower.bands,
                           carry |-> lower.carry])

\* ditherStrategy.apply(grayscaleObject) on the processed raster
applyBands(strategy, grayscaleObject) ==
    LET width == grayscaleObject.width
        bands == grayscaleObject.bands
        zero == Array([i \in 1..width |-> 0])
    IN [width |-> width, height |-> grayscaleObject.height,
        data |-> IF strategy.kind \in {"Threshold", "Bayer"}
                 THEN Array([k \in 1..Len(bands) |->
                               pointwiseBand(strategy, bands[k], width,
                                             BandRows(bands, 1, k - 1))])
                 ELSE diffuseBands(IF strategy.kind = "Atkinson" THEN AtkinsonTaps
                                   ELSE FloydSteinbergTaps,
                                   width, bands, 1, Len(bands),
                                   [next |-> zero, after |-> zero]).bands]

\* a variant of headerByte that leaves the marker out
headerByteUnmarked(patternsToUse, k) ==
    IF k < 4 + PATTERN_COUNT * PATTERN_BYTES /\ k >= 4
    THEN LET i == ((k - 4) \div PATTERN_BYTES) + 1
             j == ((k - 4) % PATTERN_BYTES) + 1
         IN IF i <= Len(patternsToUse) /\ j <= Len(patternsToUse[i])
            THEN toUint8(patternsToUse[i][j]) ELSE 0
    ELSE 0

\* byte k (from 0) of the application header toArrayBuffer writes
headerByte(patternsToUse, k) ==
    IF k = 3 THEN 2
    ELSE IF k < 4 + PATTERN_COUNT * PATTERN_BYTES /\ k >= 4
    THEN LET i == ((k - 4) \div PATTERN_BYTES) + 1
             j == ((k - 4) % PATTERN_BYTES) + 1
         IN IF i <= Len(patternsToUse) /\ j <= Len(patternsToUse[i])
            THEN toUint8(patternsToUse[i][j]) ELSE 0
    ELSE 0

\* the compressed scanlines of rows lo..hi (from 0) of a band, in a row
RECURSIVE compressedRows(_, _, _)
compressedRows(compressedLines, lo, hi) ==
    IF lo > hi THEN <<>>
    ELSE IF lo = hi THEN compressedLines[(lo % Len(compressedLines)) + 1]
    ELSE compressedRows(compressedLines, lo, (lo + hi) \div 2)
           \o compressedRows(compressedLines, (lo + hi) \div 2 + 1, hi)

\* the loop over the scanlines of toArrayBuffer: PackBits.compressScanline
\* of every row of the bands lo..hi
RECURSIVE compressedScanlines(_, _, _)
compressedScanlines(bands, lo, hi) ==
    IF lo > hi THEN <<>>
    ELSE IF lo = hi
    THEN LET compressedLines ==
                 Array([m \in 1..Len(bands[lo].lines) |->
                          compressScanline(bands[lo].lines[m]).data])
         IN compressedRows(compressedLines, 0, bands[lo].rows - 1)
    ELSE compressedScanlines(bands, lo, (lo + hi) \div 2)
           \o compressedScanlines(bands, (lo + hi) \div 2 + 1, hi)

\* MacPaintImage.toArrayBuffer(): the buffer, and the length of the
\* dithered data
toArrayBuffer(image) ==
    LET options == image.writeOptions
        failed(e) == [err |-> e, oneBitLength |-> 0, buffer |-> <<>>]
        cropped ==
            IF Len(options.crop) = 0 THEN [err |-> "", image |-> image.imageData]
            ELSE IF options.crop[1].width <= 0 \/ options.crop[1].height <= 0
            THEN [err |-> "Crop dimensions (width and height) must be greater than 0.",
                  image |-> image.imageData]
            ELSE crop(image.imageData, options.crop[1])
        padded ==
            IF /\ \/ cropped.image.width < PNTG_WIDTH
                  \/ cropped.image.height < PNTG_HEIGHT
               /\ Len(options.padding) > 0
            THEN pad(cropped.image, options.padding[1], PNTG_WIDTH, PNTG_HEIGHT)
            ELSE cropped.image
        scaled ==
            IF padded.width # PNTG_WIDTH \/ padded.height # PNTG_HEIGHT
            THEN scaleBilinear(padded, PNTG_WIDTH, PNTG_HEIGHT)
            ELSE padded
        blank(y) == Array([c \in 1..PNTG_WIDTH |-> <<255, 255, 255, 255>>])
        processedImageData ==
            IF scaled.width # PNTG_WIDTH \/ scaled.height # PNTG_HEIGHT
            THEN Raster(PNTG_WIDTH, PNTG_HEIGHT, blank, {0})
            ELSE scaled
        grayscaleObject == toGrayscale(processedImageData)
        ditherStrategy ==
            IF Len(options.ditheringStrategy) > 0 THEN options.ditheringStrategy[1]
            ELSE AtkinsonDitheringStrategy
        oneBitObject == applyBands(ditherStrategy, grayscaleObject)
        length == oneBitLength(oneBitObject.data, 1, Len(oneBitObject.data))
        patternsToUse == IF Len(options.patterns) > 0 THEN options.patterns[1]
                         ELSE image.patterns
    IN IF cropped.err # "" THEN failed(cropped.err)
       ELSE IF length # (PNTG_WIDTH * PNTG_HEIGHT) \div 8
       THEN [failed("Dithered data length is incorrect.")
               EXCEPT !.oneBitLength = length]
       ELSE [err |-> "", oneBitLength |-> length,
             buffer |-> Array([k \in 1..HEADER_BYTES |-> headerByte(patternsToUse, k - 1)])
                          \o compressedScanlines(oneBitObject.data, 1,
                                                 Len(oneBitObject.data))]

(***************************************************************************)
(* The state machine: one volume handle, formatted by the constructor, and *)
(* the calls a client makes on it.                                         *)
(***************************************************************************)
\* "A" and "BB"
Names == {<<65>>, <<66, 66>>}

\* the buffers a client passes for the forks of the file of that name: none,
\* exactly one allocation block, or one byte more than a block; every buffer
\* has bytes of its own
DataContents(name) ==
    {NullContent,
     IF name = <<65>> THEN [tag |-> 1, len |-> DEFAULT_ALLOC_BLOCK_SIZE_400K]
     ELSE [tag |-> 3, len |-> DEFAULT_ALLOC_BLOCK_SIZE_400K + 1]}

ResourceContents(name) ==
    {NullContent,
     IF name = <<65>> THEN [tag |-> 2, len |-> DEFAULT_ALLOC_BLOCK_SIZE_400K + 1]
     ELSE [tag |-> 4, len |-> DEFAULT_ALLOC_BLOCK_SIZE_400K]}

\* { type: "TEXT", creator: "EDIT" }
DefaultMetadata ==
    [type |-> <<84, 69, 88, 84>>, creator |-> <<69, 68, 73, 84>>,
     finderFlags |-> 0, folderNum |-> 0]

VARIABLES
    imageBuffer,    \* this.imageBuffer, the bytes of the image
    volumeInfo,     \* this.volumeInfo
    abm,            \* this.abm
    fileDirectory,  \* this.fileDirectory
    assigned,       \* every file number assigned so far, in order
    slots,          \* every disk offset a directory entry was stored at
    created,        \* the options the volume was created with, and the error
    copyBuffer,     \* the bytes of the copy a client made of the image
    loaded,         \* a second handle, loaded from an image
    paint           \* the MacPaint data a client holds, and what was made of it

vars ==
    <<imageBuffer, volumeInfo, abm, fileDirectory, assigned, slots, created,
      copyBuffer, loaded, paint>>

\* no MacPaint data
NoPaint == [stage |-> "none"]

\* no second handle
NoHandle == [null |-> TRUE]

Vol ==
    [imageBuffer |-> imageBuffer, volumeInfo |-> volumeInfo, abm |-> abm,
     fileDirectory |-> fileDirectory]

Init ==
    /\ imageBuffer = formatImage(SizeKB, DefaultVolumeName)
    /\ volumeInfo = parseVolumeInfo(imageBuffer)
    /\ abm = parseABM(imageBuffer, volumeInfo.numAllocBlocks)
    /\ fileDirectory = parseFileDirectory(imageBuffer, volumeInfo)
    /\ assigned = <<>>
    /\ slots = {}
    /\ created = [sizeKB |-> SizeKB, volumeName |-> DefaultVolumeName, err |-> ""]
    /\ copyBuffer = <<>>
    /\ loaded = NoHandle
    /\ paint = NoPaint

\* the call returned r: the fields of the handle afterwards
Returns(r) ==
    /\ imageBuffer' = r.vol.imageBuffer
    /\ volumeInfo' = r.vol.volumeInfo
    /\ abm' = r.vol.abm
    /\ fileDirectory' = r.vol.fileDirectory
    /\ UNCHANGED <<created, copyBuffer, loaded, paint>>

\* a call of createFile or writeFile returned r
Written(r) ==
    /\ Returns(r)
    /\ assigned' = IF r.err = ""
                   THEN Append(assigned,
                               r.vol.fileDirectory[Len(r.vol.fileDirectory)].fileNum)
                   ELSE assigned
    /\ slots' = IF r.err = ""
                THEN slots \cup {r.vol.fileDirectory[Len(r.vol.fileDirectory)].diskOffset}
                ELSE slots

CreateFile ==
    \E name \in Names :
        /\ volumeInfo.nextFileNum <= MaxFileNum
        /\ Written(createFile(Vol, name, DefaultMetadata))

WriteFile ==
    \E name \in Names :
      \E data \in DataContents(name), rsrc \in ResourceContents(name) :
        /\ volumeInfo.nextFileNum <= MaxFileNum
        /\ Written(writeFile(Vol, name, data, rsrc, DefaultMetadata))

DeleteFile ==
    \E name \in Names :
        /\ Returns(deleteFile(Vol, name))
        /\ UNCHANGED <<assigned, slots>>

Next == CreateFile \/ WriteFile \/ DeleteFile

Spec == Init /\ [][Next]_vars

\* The same calls, those that return without throwing only.
ReturnsOk(r) == r.err = "" /\ Returns(r)

WrittenOk(r) == r.err = "" /\ Written(r)

CreateFileOk ==
    \E name \in Names :
        /\ volumeInfo.nextFileNum <= MaxFileNum
        /\ WrittenOk(createFile(Vol, name, DefaultMetadata))

WriteFileOk ==
    \E name \in Names :
      \E data \in DataContents(name), rsrc \in ResourceContents(name) :
        /\ volumeInfo.nextFileNum <= MaxFileNum
        /\ WrittenOk(writeFile(Vol, name, data, rsrc, DefaultMetadata))

DeleteFileOk ==
    \E name \in Names :
        /\ ReturnsOk(deleteFile(Vol, name))
        /\ UNCHANGED <<assigned, slots>>

NextOk == CreateFileOk \/ WriteFileOk \/ DeleteFileOk

SpecOk == Init /\ [][NextOk]_vars

\* The same calls with arguments of every shape: an empty name, names of
\* MaxNameLength and of one character more, types and creators of other
\* lengths than four.
LongName(n) == [i \in 1..n |-> 67]

ArgNames == {<<65>>, <<>>, LongName(MaxNameLength), LongName(MaxNameLength + 1)}

ArgMetadata ==
    {[DefaultMetadata EXCEPT !.type = t, !.creator = c] :
        t \in {<<84, 69, 88>>, <<84, 69, 88, 84>>, <<84, 69, 88, 84, 83>>},
        c \in {<<>>, <<69, 68, 73, 84>>}}

ArgContents == {NullContent, [tag |-> 1, len |-> DEFAULT_ALLOC_BLOCK_SIZE_400K]}

\* the arguments the calls are made with
CallNames == {<<65>>, LongName(MaxNameLength + 1)}

CallMetadata == {m \in ArgMetadata : Len(m.type) <= 4 /\ Len(m.creator) = 4}

CreateFileArgs ==
    \E name \in CallNames, metadata \in CallMetadata :
        /\ volumeInfo.nextFileNum <= MaxFileNum
        /\ Written(createFile(Vol, name, metadata))

WriteFileArgs ==
    \E name \in CallNames, metadata \in CallMetadata, data \in ArgContents :
        /\ volumeInfo.nextFileNum <= MaxFileNum
        /\ Written(writeFile(Vol, name, data, NullContent, metadata))

DeleteFileArgs ==
    \E name \in CallNames :
        /\ Returns(deleteFile(Vol, name))
        /\ UNCHANGED <<assigned, slots>>

NextArgs == CreateFileArgs \/ WriteFileArgs \/ DeleteFileArgs

SpecArgs == Init /\ [][NextArgs]_vars

\* Volumes of every size and name, each as its constructor leaves it.
MaxVolumeNameLength == 27

VolumeName(n) == [i \in 1..n |-> 64 + i]

FormatSizes == 0..(SizeKB + 1) \cup {DefaultSizeKB}

FormatNames == {VolumeName(n) : n \in 0..(MaxVolumeNameLength + 2)}

\* the client has chosen the options, and the constructor is yet to run
InitFormat ==
    /\ \E sizeKB \in FormatSizes, volumeName \in FormatNames :
         created = [sizeKB |-> sizeKB, volumeName |-> volumeName, err |-> "pending"]
    /\ imageBuffer = NoVolume.imageBuffer
    /\ volumeInfo = NoVolume.volumeInfo
    /\ abm = NoVolume.abm
    /\ fileDirectory = NoVolume.fileDirectory
    /\ assigned = <<>>
    /\ slots = {}
    /\ copyBuffer = <<>>
    /\ loaded = NoHandle
    /\ paint = NoPaint

\* new MFSVolume({create: true, sizeKB, volumeName}) runs
NewVolume ==
    /\ created.err = "pending"
    /\ LET n == newVolume(created.sizeKB, created.volumeName)
       IN /\ imageBuffer' = n.vol.imageBuffer
          /\ volumeInfo' = n.vol.volumeInfo
          /\ abm' = n.vol.abm
          /\ fileDirectory' = n.vol.fileDirectory
          /\ created' = [created EXCEPT !.err = n.err]
    /\ UNCHANGED <<assigned, slots, copyBuffer, loaded, paint>>

NextFormat == NewVolume

SpecFormat == InitFormat /\ [][NextFormat]_vars

\* A volume whose directory is nearly full: DirFiles files with names of
\* MaxNameLength characters, of 306 bytes each in the directory of 6144.
DirFiles == 19

DirName(k) == [i \in 1..MaxNameLength |-> IF i = 1 THEN 64 + k ELSE 67]

\* the volume v after createFile was called for DirName(k) .. DirName(n)
RECURSIVE FillFrom(_, _, _)
FillFrom(v, k, n) ==
    IF k > n THEN v
    ELSE LET w == createFile(v, DirName(k), DefaultMetadata).vol
         IN Strict(w, FillFrom(w, k + 1, n))

Filled(n) == FillFrom(formatNewImage(SizeKB, DefaultVolumeName).vol, 1, n)

InitFull ==
    \E v \in {Filled(DirFiles)} :
        /\ imageBuffer = v.imageBuffer
        /\ volumeInfo = v.volumeInfo
        /\ abm = v.abm
        /\ fileDirectory = v.fileDirectory
        /\ assigned = [k \in 1..DirFiles |-> v.fileDirectory[k].fileNum]
        /\ slots = {v.fileDirectory[k].diskOffset : k \in 1..DirFiles}
        /\ created = [sizeKB |-> SizeKB, volumeName |-> DefaultVolumeName, err |-> ""]
        /\ copyBuffer = <<>>
        /\ loaded = NoHandle
        /\ paint = NoPaint

FullNames == {<<65>>, DirName(DirFiles + 1)}

WriteFileFull ==
    \E name \in FullNames :
      \E data \in DataContents(name), rsrc \in ResourceContents(name) :
        /\ volumeInfo.nextFileNum <= DirFiles + MaxFileNum
        /\ Written(writeFile(Vol, name, data, rsrc, DefaultMetadata))

DeleteFileFull ==
    \E name \in FullNames \cup {DirName(DirFiles)} :
        /\ Returns(deleteFile(Vol, name))
        /\ UNCHANGED <<assigned, slots>>

NextFull == WriteFileFull \/ DeleteFileFull

SpecFull == InitFull /\ [][NextFull]_vars

\* Two handles.  The second is built from an ArrayBuffer with the image of
\* the first: the ArrayBuffer getDiskImage() returns (buffer 1, whose bytes
\* are imageBuffer), or a copy the client made of it (buffer 2, whose bytes
\* are copyBuffer).
BufferOf(h) == IF h.buffer = 1 THEN imageBuffer ELSE copyBuffer

LoadedVol ==
    [imageBuffer |-> BufferOf(loaded), volumeInfo |-> loaded.volumeInfo,
     abm |-> loaded.abm, fileDirectory |-> loaded.fileDirectory]

\* the handle new MFSVolume(arrayBuffer) gives, the bytes of buffer b being
\* arrayBuffer
Loaded(b, arrayBuffer) ==
    LET v == loadExistingImage(arrayBuffer)
    IN [buffer |-> b, volumeInfo |-> v.volumeInfo, abm |-> v.abm,
        fileDirectory |-> v.fileDirectory]

\* new MFSVolume(mfs.getDiskImage())
LoadDiskImage ==
    /\ loaded = NoHandle
    /\ loaded' = Loaded(1, getDiskImage(Vol))
    /\ UNCHANGED <<imageBuffer, volumeInfo, abm, fileDirectory, assigned, slots,
                   created, copyBuffer, paint>>

\* new MFSVolume(mfs.getDiskImage().slice(0))
LoadCopy ==
    /\ loaded = NoHandle
    /\ copyBuffer' = Slice(getDiskImage(Vol), 0, byteLength(getDiskImage(Vol)))
    /\ loaded' = Loaded(2, copyBuffer')
    /\ UNCHANGED <<imageBuffer, volumeInfo, abm, fileDirectory, assigned, slots,
                   created, paint>>

\* a call on the second handle returned r
ReturnsLoaded(r) ==
    /\ loaded' = [loaded EXCEPT !.volumeInfo = r.vol.volumeInfo,
                                !.abm = r.vol.abm,
                                !.fileDirectory = r.vol.fileDirectory]
    /\ IF loaded.buffer = 1
       THEN imageBuffer' = r.vol.imageBuffer /\ UNCHANGED copyBuffer
       ELSE copyBuffer' = r.vol.imageBuffer /\ UNCHANGED imageBuffer
    /\ UNCHANGED <<volumeInfo, abm, fileDirectory, assigned, slots, created, paint>>

SharedNames == {<<65>>}

WriteFileFirst ==
    \E name \in SharedNames :
      \E data \in DataContents(name), rsrc \in ResourceContents(name) :
        /\ volumeInfo.nextFileNum <= MaxFileNum
        /\ Written(writeFile(Vol, name, data, rsrc, DefaultMetadata))

DeleteFileFirst ==
    \E name \in SharedNames :
        /\ Returns(deleteFile(Vol, name))
        /\ UNCHANGED <<assigned, slots>>

WriteFileLoaded ==
    \E name \in SharedNames :
      \E data \in DataContents(name), rsrc \in ResourceContents(name) :
        /\ loaded # NoHandle
        /\ loaded.volumeInfo.nextFileNum <= MaxFileNum
        /\ ReturnsLoaded(writeFile(LoadedVol, name, data, rsrc, DefaultMetadata))

DeleteFileLoaded ==
    \E name \in SharedNames :
        /\ loaded # NoHandle
        /\ ReturnsLoaded(deleteFile(LoadedVol, name))

NextShared ==
    \/ LoadDiskImage
    \/ LoadCopy
    \/ WriteFileFirst
    \/ DeleteFileFirst
    \/ WriteFileLoaded
    \/ DeleteFileLoaded

SpecShared == Init /\ [][NextShared]_vars

\* A volume of LargeSizeKB: its allocation block map has more entries than
\* the 640 that fit between offset 64 of the MDB and the end of sector 3.
\* The client makes the calls of Next on it.
LargeSizeKB == 650

InitLarge ==
    /\ imageBuffer = formatImage(LargeSizeKB, DefaultVolumeName)
    /\ volumeInfo = parseVolumeInfo(imageBuffer)
    /\ abm = parseABM(imageBuffer, volumeInfo.numAllocBlocks)
    /\ fileDirectory = parseFileDirectory(imageBuffer, volumeInfo)
    /\ assigned = <<>>
    /\ slots = {}
    /\ created = [sizeKB |-> LargeSizeKB, volumeName |-> DefaultVolumeName, err |-> ""]
    /\ copyBuffer = <<>>
    /\ loaded = NoHandle
    /\ paint = NoPaint

SpecLarge == InitLarge /\ [][Next]_vars

\* A volume whose directory holds two entries in a sector: ScanFiles files
\* with names of ScanNameLength characters, of 256 bytes each in the
\* directory.  A client deletes files and loads copies of the image.
ScanFiles == 5

ScanNameLength == (SECTOR_SIZE \div 2) - EntryHeaderLength

ScanName(k) == [i \in 1..ScanNameLength |-> IF i = 1 THEN 64 + k ELSE 67]

\* the volume v after createFile was called for ScanName(k) .. ScanName(n)
RECURSIVE ScanFrom(_, _, _)
ScanFrom(v, k, n) ==
    IF k > n THEN v
    ELSE LET w == createFile(v, ScanName(k), DefaultMetadata).vol
         IN Strict(w, ScanFrom(w, k + 1, n))

InitScan ==
    \E v \in {ScanFrom(formatNewImage(SizeKB, DefaultVolumeName).vol, 1, ScanFiles)} :
        /\ imageBuffer = v.imageBuffer
        /\ volumeInfo = v.volumeInfo
        /\ abm = v.abm
        /\ fileDirectory = v.fileDirectory
        /\ assigned = [k \in 1..ScanFiles |-> v.fileDirectory[k].fileNum]
        /\ slots = {v.fileDirectory[k].diskOffset : k \in 1..ScanFiles}
        /\ created = [sizeKB |-> SizeKB, volumeName |-> DefaultVolumeName, err |-> ""]
        /\ copyBuffer = <<>>
        /\ loaded = NoHandle
        /\ paint = NoPaint

DeleteFileScan ==
    \E k \in 1..ScanFiles :
        /\ Returns(deleteFile(Vol, ScanName(k)))
        /\ UNCHANGED <<assigned, slots>>

NextScan == DeleteFileScan \/ LoadCopy

SpecScan == InitScan /\ [][NextScan]_vars

\* An image that was not written by this library: a volume of SizeKB with
\* one file, <<65>>, whose directory entry names any start block and length
\* for the data fork, and whose allocation block map holds any links in the
\* entries of blocks 2 and 3, a free or a reserved block 4, and free blocks
\* after it.  drFreeBks counts the free entries.  A client loads the image
\* and makes the calls of Next on it.
LinkValues(numAllocBlocks) ==
    {FreeBlock, EndOfChain, 2, 3, numAllocBlocks + 2, MaxABMValue}

CorruptABMs(numAllocBlocks) ==
    {[i \in 1..numAllocBlocks |->
        IF i = 1 THEN l[1] ELSE IF i = 2 THEN l[2] ELSE IF i = 3 THEN r ELSE FreeBlock] :
       l \in LinkValues(numAllocBlocks) \X LinkValues(numAllocBlocks),
       r \in {FreeBlock, MaxABMValue}}

CorruptStarts(numAllocBlocks) == {EndOfChain, 2, numAllocBlocks + 2}

CorruptLengths(vi) ==
    {vi.allocBlockSize + 1, (vi.numAllocBlocks + 2) * vi.allocBlockSize}

\* a volume createFile made, with the start block and the lengths stored in
\* the directory entry of its file, and the volume info that counts the
\* free entries of a
CorruptEntries(a, start, length) ==
    {[imageBuffer |->
          writeFileDirectoryEntry(v.imageBuffer,
                                  [v.fileDirectory[1] EXCEPT
                                       !.dataForkStartBlock = start,
                                       !.dataForkLogicalLength = length,
                                       !.dataForkAllocLength = length],
                                  v.fileDirectory[1].diskOffset),
      volumeInfo |->
          [v.volumeInfo EXCEPT !.freeAllocBlocks =
               Cardinality({i \in 1..Len(a) : a[i] = FreeBlock})]] :
       v \in {createFile(formatNewImage(SizeKB, DefaultVolumeName).vol, <<65>>,
                         DefaultMetadata).vol}}

\* the images: the MDB with the allocation block map a stored as well
CorruptImages(a, start, length) ==
    {writeMDB(c.imageBuffer, c.volumeInfo, a) : c \in CorruptEntries(a, start, length)}

InitCorrupt ==
    \E n \in {formatVolumeInfo(SizeKB, DefaultVolumeName).numAllocBlocks} :
      \E a \in CorruptABMs(n), start \in CorruptStarts(n) :
        \E length \in CorruptLengths(formatVolumeInfo(SizeKB, DefaultVolumeName)) :
          \E arrayBuffer \in CorruptImages(a, start, length) :
            \E v \in {loadExistingImage(arrayBuffer)} :
              /\ imageBuffer = v.imageBuffer
              /\ volumeInfo = v.volumeInfo
              /\ abm = v.abm
              /\ fileDirectory = v.fileDirectory
              /\ assigned = <<v.fileDirectory[1].fileNum>>
              /\ slots = {v.fileDirectory[1].diskOffset}
              /\ created = [sizeKB |-> SizeKB, volumeName |-> DefaultVolumeName,
                            err |-> ""]
              /\ copyBuffer = <<>>
              /\ loaded = NoHandle
              /\ paint = NoPaint

SpecCorrupt == InitCorrupt /\ [][Next]_vars

\* Files in folders: the client passes a folder number with writeFile, such
\* as -2 for the desktop, and loads copies of the image.
FolderNums == {-32768, -2, 0, 32767}

FolderMetadata(f) == [DefaultMetadata EXCEPT !.folderNum = f]

WriteFileFolder ==
    \E name \in Names, f \in FolderNums :
      \E data \in DataContents(name) :
        /\ volumeInfo.nextFileNum <= MaxFileNum
        /\ Written(writeFile(Vol, name, data, NullContent, FolderMetadata(f)))

NextFolder == WriteFileFolder \/ LoadCopy

SpecFolder == Init /\ [][NextFolder]_vars

\* The 12-bit codec on its own.  A handle holds an ABM array of up to
\* MaxEntries entries, each one of CodecValues, over a loaded image whose
\* ABM area holds the entry OldEntry in every slot; the client keeps a copy
\* of the image, has the MDB written and loads the image again.
MaxEntries == 3

CodecValues == {FreeBlock, EndOfChain, 2748, MaxABMValue, MaxABMValue + 1}

OldEntries == {FreeBlock, MaxABMValue}

ABMArrays(n) == [1..n -> CodecValues]

InitCodec ==
    \E n \in 1..MaxEntries, old \in OldEntries :
      \E v \in ABMArrays(n) :
        /\ volumeInfo = formatVolumeInfo(8 + n, DefaultVolumeName)
        /\ imageBuffer = writeABM(formatImage(8 + n, DefaultVolumeName),
                                  MaxEntries + 1, [k \in 1..(MaxEntries + 1) |-> old])
        /\ abm = v
        /\ fileDirectory = <<>>
        /\ assigned = <<>>
        /\ slots = {}
        /\ created = [sizeKB |-> 8 + n, volumeName |-> DefaultVolumeName, err |-> ""]
        /\ copyBuffer = <<>>
        /\ loaded = NoHandle
        /\ paint = NoPaint

\* this._writeMDB(), after the client copied the image
WriteMDB ==
    /\ copyBuffer = <<>>
    /\ copyBuffer' = Slice(imageBuffer, 0, byteLength(imageBuffer))
    /\ imageBuffer' = writeMDB(imageBuffer, volumeInfo, abm)
    /\ UNCHANGED <<volumeInfo, abm, fileDirectory, assigned, slots, created,
                   loaded, paint>>

\* new MFSVolume(mfs.getDiskImage()) after the MDB was written
ParseMDB ==
    /\ copyBuffer # <<>>
    /\ loaded = NoHandle
    /\ loaded' = Loaded(1, getDiskImage(Vol))
    /\ UNCHANGED <<imageBuffer, volumeInfo, abm, fileDirectory, assigned, slots,
                   created, copyBuffer, paint>>

NextCodec == WriteMDB \/ ParseMDB

SpecCodec == InitCodec /\ [][NextCodec]_vars

\* PackBits on its own.  The scanlines a client compresses: a pattern of up
\* to PatternLen bytes repeated over the 72 bytes, behind a run of zeros or
\* none.  The inputs a client decompresses: up to MaxPackets packets in a
\* row, whole or with the last byte missing, read from offset 0 or 1.
PatternLen == 4
MaxPackets == 3

PaintBytes == {0, 128, 255}

Patterns == UNION {[1..n -> PaintBytes] : n \in 1..PatternLen}

Tiled(k, p) ==
    [i \in 1..SCANLINE_BYTES |-> IF i <= k THEN 0 ELSE p[((i - k - 1) % Len(p)) + 1]]

Scanlines ==
    {Tiled(0, p) : p \in Patterns}
      \cup {Tiled(k, p) : k \in {1, 35, 71}, p \in {q \in Patterns : Len(q) <= 2}}

LiteralPacket(count) == <<count - 1>> \o [k \in 1..count |-> k]
RepeatPacket(count) == <<toUint8(1 - count), 255>>
NoOpPacket == <<128>>

Packets ==
    {LiteralPacket(c) : c \in {1, 2, 36, 72, 73}}
      \cup {RepeatPacket(c) : c \in {2, 36, 72, 73}}
      \cup {NoOpPacket}

RECURSIVE PacketRows(_)
PacketRows(n) ==
    IF n = 0 THEN {<<>>}
    ELSE PacketRows(n - 1)
           \cup {x \o p : x \in PacketRows(n - 1), p \in Packets}

PackedInputs ==
    PacketRows(MaxPackets)
      \cup {SubSeq(x, 1, Len(x) - 1) : x \in PacketRows(MaxPackets) \ {<<>>}}

\* the MFS variables while no volume is in use
NoVolumeInUse ==
    /\ imageBuffer = NoVolume.imageBuffer
    /\ volumeInfo = NoVolume.volumeInfo
    /\ abm = NoVolume.abm
    /\ fileDirectory = NoVolume.fileDirectory
    /\ assigned = <<>>
    /\ slots = {}
    /\ created = [sizeKB |-> 0, volumeName |-> <<>>, err |-> "none"]
    /\ copyBuffer = <<>>
    /\ loaded = NoHandle

VolumeVars ==
    <<imageBuffer, volumeInfo, abm, fileDirectory, assigned, slots, created,
      copyBuffer, loaded>>

InitPackBits ==
    /\ NoVolumeInUse
    /\ \/ \E s \in Scanlines : paint = [stage |-> "scanline", scanline |-> s]
       \/ \E x \in PackedInputs, o \in {0, 1} :
            paint = [stage |-> "input", input |-> x, offset |-> o]

CompressScanline ==
    /\ paint.stage = "scanline"
    /\ paint' = [stage |-> "compressed", scanline |-> paint.scanline,
                 compressed |-> compressScanline(paint.scanline)]
    /\ UNCHANGED VolumeVars

DecompressCompressed ==
    /\ paint.stage = "compressed"
    /\ paint.compressed.err = ""
    /\ paint' = [stage |-> "roundtrip", scanline |-> paint.scanline,
                 compressed |-> paint.compressed,
                 result |-> decompressScanline(paint.compressed.data, 0)]
    /\ UNCHANGED VolumeVars

DecompressInput ==
    /\ paint.stage = "input"
    /\ paint' = [stage |-> "decoded", input |-> paint.input, offset |-> paint.offset,
                 result |-> decompressScanline(paint.input, paint.offset)]
    /\ UNCHANGED VolumeVars

NextPackBits == CompressScanline \/ DecompressCompressed \/ DecompressInput

SpecPackBits == InitPackBits /\ [][NextPackBits]_vars

\* The dithering strategies on their own.  The grayscale buffers a caller
\* passes: rasters of up to MaxPixels pixels; a strategy of each class.
MaxPixels == 4

GrayValues == {40, 100, 200}

GrayRasters(w, h) ==
    {[data |-> d, width |-> w, height |-> h] : d \in [1..(w * h) -> GrayValues]}

GrayscaleData ==
    UNION {GrayRasters(s[1], s[2]) :
           s \in {t \in (1..MaxPixels) \X (1..MaxPixels) : t[1] * t[2] <= MaxPixels}}

Strategies ==
    {ThresholdStrategy(128), ThresholdStrategy(50), AtkinsonDitheringStrategy,
     FloydSteinbergDitheringStrategy, BayerDitheringStrategy(2),
     BayerDitheringStrategy(0)}

InitDither ==
    /\ NoVolumeInUse
    /\ \E s \in Strategies, g \in GrayscaleData :
         paint = [stage |-> "gray", strategy |-> s, given |-> g, gray |-> g]

\* apply() on the caller's buffer
ApplyDither ==
    /\ paint.stage = "gray"
    /\ \E r \in {apply(paint.strategy, paint.gray)} :
         paint' = [stage |-> "dithered", strategy |-> r.strategy,
                   given |-> paint.given,
                   gray |-> [paint.gray EXCEPT !.data = r.input],
                   first |-> r.data]
    /\ UNCHANGED VolumeVars

\* apply() a second time, on the same buffer and the same strategy object
ApplyAgain ==
    /\ paint.stage = "dithered"
    /\ \E r \in {apply(paint.strategy, paint.gray)} :
         paint' = [stage |-> "again", strategy |-> r.strategy,
                   given |-> paint.given,
                   gray |-> [paint.gray EXCEPT !.data = r.input],
                   first |-> paint.first, second |-> r.data]
    /\ UNCHANGED VolumeVars

NextDither == ApplyDither \/ ApplyAgain

SpecDither == InitDither /\ [][NextDither]_vars

\* MacPaintImage on its own.  The files a client parses: an application
\* header with one of Markers, the patterns filled with one byte, behind
\* one of Wrappers, followed by one of Bodies, or cut inside the header.
\* The images a client serialises: rasters of up to MaxSide pixels a side,
\* painted in one of Paintings, with write options; but for one, a raster
\* of more than one row is padded or cropped to one row rather than
\* scaled, and error diffusion is given rasters on which the error dies
\* out within a few rows.
MaxSide == 2

MacBinaryHeader(nameLength, fileType) ==
    [k \in 1..MACBINARY_BYTES |->
       IF k = 2 THEN nameLength
       ELSE IF k >= 66 /\ k <= 69 THEN fileType[k - 65] ELSE 0]

Wrappers ==
    {<<>>, MacBinaryHeader(1, <<80, 78, 84, 71>>), MacBinaryHeader(63, <<80, 78, 84, 71>>),
     MacBinaryHeader(64, <<80, 78, 84, 71>>), MacBinaryHeader(1, <<80, 78, 84, 88>>)}

Markers == {<<0, 0, 0, 2>>, <<0, 0, 0, 0>>, <<0, 0, 2, 2>>}

ApplicationHeader(marker, patternByte) ==
    marker \o [k \in 1..(HEADER_BYTES - 4) |->
                 IF k <= PATTERN_COUNT * PATTERN_BYTES THEN patternByte ELSE 0]

\* scanlines of 72 equal bytes, each compressed as one repeat run
ScanlineData(count, byte) ==
    [k \in 1..(2 * count) |-> IF k % 2 = 1 THEN toUint8(1 - SCANLINE_BYTES) ELSE byte]

Bodies ==
    {<<>>, ScanlineData(PNTG_HEIGHT, 0), ScanlineData(PNTG_HEIGHT, 255),
     ScanlineData(PNTG_HEIGHT - 1, 0),
     ScanlineData(PNTG_HEIGHT - 1, 0) \o <<71>> \o [k \in 1..72 |-> k],
     ScanlineData(PNTG_HEIGHT, 0) \o <<1, 2, 3>>}

HeaderCuts == {0, 4, HEADER_BYTES - 1}

Files ==
    {w \o ApplicationHeader(m, 170) \o b : w \in Wrappers, m \in Markers, b \in Bodies}
      \cup {w \o SubSeq(ApplicationHeader(m, 170), 1, n) :
            w \in Wrappers, m \in Markers, n \in HeaderCuts}

GrayPixel == <<100, 100, 100, 255>>
ColourPixel == <<200, 30, 60, 128>>

Paintings == {"gray", "checker", "colour"}

Painted(painting, x, y) ==
    IF painting = "gray" THEN GrayPixel
    ELSE IF painting = "checker"
    THEN IF (x + y) % 2 = 0 THEN BlackPixel ELSE WhitePixel
    ELSE IF x = 0 THEN ColourPixel ELSE WhitePixel

SourceRaster(width, height, painting) ==
    LET line(y) == [c \in 1..width |-> Painted(painting, c - 1, y)]
    IN Raster(width, height, line, 0..(height - 1))

Crops ==
    {<<>>, <<[x |-> 0, y |-> 0, width |-> 1, height |-> 1]>>,
     <<[x |-> MaxSide - 1, y |-> 0, width |-> 1, height |-> 1]>>,
     <<[x |-> 0, y |-> 0, width |-> MaxSide, height |-> 1]>>,
     <<[x |-> 0, y |-> 0, width |-> 0, height |-> 1]>>,
     <<[x |-> 0, y |-> 0, width |-> 1, height |-> 0 - 1]>>,
     <<[x |-> 1, y |-> 1, width |-> MaxSide, height |-> MaxSide]>>}

Paddings ==
    {<<>>, <<[x |-> 0, y |-> 0, color |-> "white"]>>,
     <<[x |-> 10, y |-> 5, color |-> "white"]>>,
     <<[x |-> 0 - 1, y |-> PNTG_HEIGHT - 1, color |-> "white"]>>,
     <<[x |-> 10, y |-> 5, color |-> "black"]>>}

WriteStrategies ==
    {<<>>, <<ThresholdStrategy(128)>>, <<FloydSteinbergDitheringStrategy>>,
     <<BayerDitheringStrategy(4)>>}

CustomPatterns ==
    [i \in 1..PATTERN_COUNT |-> [j \in 1..PATTERN_BYTES |-> (8 * i + j) % 256]]

WriteOptions ==
    {[patterns |-> p, crop |-> c, padding |-> d, ditheringStrategy |-> s] :
       p \in {<<>>, <<CustomPatterns>>}, c \in Crops, d \in Paddings,
       s \in WriteStrategies}

\* the height the raster has when it is scaled, 0 if it is not scaled
ScaledHeight(height, options) ==
    IF Len(options.padding) > 0 THEN 0
    ELSE IF Len(options.crop) > 0 THEN options.crop[1].height
    ELSE height

Diffusing(options) ==
    \/ Len(options.ditheringStrategy) = 0
    \/ options.ditheringStrategy[1].kind \in {"Atkinson", "FloydSteinberg"}

\* the error that error diffusion passes on dies out within a few rows: the
\* raster is black and white, or it is padded and the strategy drops a part
\* of the error (Atkinson) or the raster lies on the last row
FewRowsOfError(s) ==
    IF Len(s.options.padding) = 0
    THEN s.painting = "checker" /\ s.width = 1 /\ s.height = 1
           /\ Len(s.options.crop) = 0
    ELSE \/ s.painting = "checker"
         \/ Len(s.options.ditheringStrategy) = 0
         \/ s.options.padding[1].y = PNTG_HEIGHT - 1

Sources ==
    {[width |-> w, height |-> h, painting |-> p, options |-> o] :
       w \in 1..MaxSide, h \in 1..MaxSide, p \in Paintings, o \in WriteOptions}

Images ==
    {s \in Sources :
       /\ \/ ScaledHeight(s.height, s.options) <= 1
          \/ /\ s.width = 1 /\ s.height = 2 /\ s.painting = "colour"
             /\ Len(s.options.crop) = 0 /\ ~Diffusing(s.options)
       /\ Len(s.options.patterns) > 0
            => s.painting = "checker" /\ s.width = 1 /\ s.height = 1
       /\ Len(s.options.crop) > 0 => s.width = MaxSide /\ s.height = MaxSide
       /\ Diffusing(s.options) => FewRowsOfError(s)}

InitPNTG ==
    /\ NoVolumeInUse
    /\ \/ \E f \in Files : paint = [stage |-> "file", arrayBuffer |-> f]
       \/ \E s \in Images :
            paint = [stage |-> "image",
                     image |-> MacPaintImage(SourceRaster(s.width, s.height, s.painting),
                                             s.options)]

\* MacPaintImage.fromArrayBuffer(arrayBuffer) of a file
FromArrayBuffer ==
    /\ paint.stage = "file"
    /\ paint' = [stage |-> "parsed", arrayBuffer |-> paint.arrayBuffer,
                 parsed |-> fromArrayBuffer(paint.arrayBuffer)]
    /\ UNCHANGED VolumeVars

\* image.toArrayBuffer()
ToArrayBuffer ==
    /\ paint.stage = "image"
    /\ paint' = [stage |-> "serialised", image |-> paint.image,
                 written |-> toArrayBuffer(paint.image)]
    /\ UNCHANGED VolumeVars

\* MacPaintImage.fromArrayBuffer of the buffer toArrayBuffer returned
ReadBack ==
    /\ paint.stage = "serialised"
    /\ paint.written.err = ""
    /\ paint' = [stage |-> "readback", image |-> paint.image,
                 written |-> paint.written,
                 parsed |-> fromArrayBuffer(paint.written.buffer)]
    /\ UNCHANGED VolumeVars

NextPNTG == FromArrayBuffer \/ ToArrayBuffer \/ ReadBack

SpecPNTG == InitPNTG /\ [][NextPNTG]_vars

\* Black-and-white rasters of 576 x 720: an upper and a lower part, each of
\* equal lines of one kind, the lower part starting at a row of PartRows.
\* A client serialises such a raster with any of the strategies and the
\* default or its own patterns, and parses the result.
LineKinds == {"white", "black", "stripes", "edge"}

PartRows == {1, PNTG_HEIGHT \div 2, PNTG_HEIGHT - 1}

\* pixel c (from 1) of a line of that kind
LinePixel(kind, c) ==
    IF kind = "white" THEN WhitePixel
    ELSE IF kind = "black" THEN BlackPixel
    ELSE IF kind = "stripes" THEN IF c % 3 = 1 THEN BlackPixel ELSE WhitePixel
    ELSE IF c = 1 THEN BlackPixel ELSE WhitePixel

TwoPartRaster(upper, lower, row) ==
    LET line(y) == [c \in 1..PNTG_WIDTH |->
                      LinePixel(IF y < row THEN upper ELSE lower, c)]
    IN Raster(PNTG_WIDTH, PNTG_HEIGHT, line, {row})

RoundTripOptions ==
    {[patterns |-> p, crop |-> <<>>, padding |-> <<>>, ditheringStrategy |-> s] :
       p \in {<<>>, <<CustomPatterns>>}, s \in WriteStrategies}

InitRoundTrip ==
    /\ NoVolumeInUse
    /\ \E upper \in LineKinds, lower \in LineKinds, row \in PartRows :
         \E o \in RoundTripOptions :
           paint = [stage |-> "image",
                    image |-> MacPaintImage(TwoPartRaster(upper, lower, row), o)]

NextRoundTrip == ToArrayBuffer \/ ReadBack

SpecRoundTrip == InitRoundTrip /\ [][NextRoundTrip]_vars

(***************************************************************************)
(* Properties of the volume.  A property of a call is stated of every      *)
(* call a client can make in the current state.                            *)
(***************************************************************************)
Exists(v, name) == findFileEntryByName(v.fileDirectory, name) # 0

\* the number of free entries of an ABM array
FreeCount(a) == Cardinality({i \in 1..Len(a) : a[i] = FreeBlock})

\* The chain of a fork: the blocks met following the ABM links from start,
\* for at most fuel steps; ok says that the walk met the end-of-chain mark,
\* having read only links to blocks of the volume it had not visited.
RECURSIVE ChainFrom(_, _, _, _, _)
ChainFrom(a, numAllocBlocks, current, fuel, seen) ==
    IF ~validBlockNum(numAllocBlocks, current) \/ fuel = 0
       \/ \E i \in 1..Len(seen) : seen[i] = current
    THEN [blocks |-> seen, ok |-> FALSE]
    ELSE LET next == a[current - 1]
         IN IF next = EndOfChain
            THEN [blocks |-> Append(seen, current), ok |-> TRUE]
            ELSE ChainFrom(a, numAllocBlocks, next, fuel - 1, Append(seen, current))

Chain(v, start) ==
    IF start = 0 THEN [blocks |-> <<>>, ok |-> TRUE]
    ELSE ChainFrom(v.abm, v.volumeInfo.numAllocBlocks, start,
                   v.volumeInfo.numAllocBlocks, <<>>)

Range(f) == {f[i] : i \in DOMAIN f}

\* the forks of the files in use: <<index in the directory, fork>>
Forks(v) == (1..Len(v.fileDirectory)) \X {"data", "resource"}

StartBlock(v, f) ==
    IF f[2] = "data" THEN v.fileDirectory[f[1]].dataForkStartBlock
    ELSE v.fileDirectory[f[1]].resourceForkStartBlock

LogicalLength(v, f) ==
    IF f[2] = "data" THEN v.fileDirectory[f[1]].dataForkLogicalLength
    ELSE v.fileDirectory[f[1]].resourceForkLogicalLength

AllocLength(v, f) ==
    IF f[2] = "data" THEN v.fileDirectory[f[1]].dataForkAllocLength
    ELSE v.fileDirectory[f[1]].resourceForkAllocLength

\* C1: whenever writeFile(name, data, rsrc, meta) returns successfully,
\* readFile(name, 'data') then returns the bytes of data and
\* readFile(name, 'resource') the bytes of rsrc (nothing for an empty fork).
C1_WriteReadRoundTrip ==
    \A name \in Names :
      \A data \in DataContents(name), rsrc \in ResourceContents(name) :
        LET w == writeFile(Vol, name, data, rsrc, DefaultMetadata)
        IN w.err = "" =>
             /\ readFile(w.vol, name, "data") = [err |-> "", bytes |-> contentBytes(data)]
             /\ readFile(w.vol, name, "resource")
                  = [err |-> "", bytes |-> contentBytes(rsrc)]

\* a file with two forks was written over blocks that held another file's
\* bytes, and both forks read back
C1_Witness ==
    \E name \in Names :
      \E data \in DataContents(name), rsrc \in ResourceContents(name) :
        /\ data.len > 0 /\ rsrc.len > 0
        /\ Len(assigned) > 1
        /\ Exists(Vol, name)
        /\ readFile(Vol, name, "data").bytes = contentBytes(data)
        /\ readFile(Vol, name, "resource").bytes = contentBytes(rsrc)

\* C2: drFreeBks (volumeInfo.freeAllocBlocks) equals the number of ABM
\* entries equal to 0x000, after every call.
C2_FreeBlocksCount == volumeInfo.freeAllocBlocks = FreeCount(abm)

\* blocks were allocated and blocks were freed
C2_Witness ==
    /\ Len(assigned) > Len(fileDirectory)
    /\ Len(fileDirectory) > 0
    /\ volumeInfo.freeAllocBlocks < volumeInfo.numAllocBlocks
    /\ volumeInfo.freeAllocBlocks > 0

\* the directory entries in use on the disk: the offsets an entry was stored
\* at whose flag byte has bit 7 set
InUseOnDisk == {o \in slots : readUint8(imageBuffer, o) >= 128}

C4_ChainsDisjoint ==
    \A f \in Forks(Vol), g \in Forks(Vol) :
        f # g => Range(Chain(Vol, StartBlock(Vol, f)).blocks)
                   \cap Range(Chain(Vol, StartBlock(Vol, g)).blocks) = {}

\* two files in use, each with a non-empty chain, one of them with two
\* non-empty forks
C4_Witness ==
    /\ Len(fileDirectory) = 2
    /\ \E i \in 1..2 : /\ fileDirectory[i].dataForkStartBlock # 0
                       /\ fileDirectory[i].resourceForkStartBlock # 0
    /\ \A i \in 1..2 : \/ fileDirectory[i].dataForkStartBlock # 0
                       \/ fileDirectory[i].resourceForkStartBlock # 0

C6_ForkLengths ==
    \A f \in Forks(Vol) :
        LET c == Chain(Vol, StartBlock(Vol, f))
        IN /\ AllocLength(Vol, f) = Len(c.blocks) * volumeInfo.allocBlockSize
           /\ LogicalLength(Vol, f) <= AllocLength(Vol, f)
           /\ (StartBlock(Vol, f) = 0) = (LogicalLength(Vol, f) = 0)
           /\ (LogicalLength(Vol, f) = 0) = (c.blocks = <<>>)

\* a file with an empty data fork and a non-empty resource fork, and a fork
\* of exactly drAlBlkSiz bytes on a chain of one block
C6_Witness ==
    /\ \E i \in 1..Len(fileDirectory) :
         /\ fileDirectory[i].dataForkStartBlock = 0
         /\ fileDirectory[i].resourceForkLogicalLength > 0
    /\ \E f \in Forks(Vol) :
         /\ LogicalLength(Vol, f) = volumeInfo.allocBlockSize
         /\ Len(Chain(Vol, StartBlock(Vol, f)).blocks) = 1
         /\ abm[StartBlock(Vol, f) - 1] = EndOfChain

\* C7: drNxtFNum never decreases and is greater than every file number
\* assigned so far; no two files created on the volume, deleted and
\* overwritten ones included, get the same file number.
C7_FileNumbers ==
    /\ [](/\ \A i \in 1..Len(assigned) : assigned[i] < volumeInfo.nextFileNum
          /\ \A i, j \in 1..Len(assigned) : i # j => assigned[i] # assigned[j])
    /\ [][volumeInfo'.nextFileNum >= volumeInfo.nextFileNum]_vars

\* two numbers were assigned, one of them to a file that is gone
C7_Witness ==
    /\ Len(assigned) = 2
    /\ Len(fileDirectory) = 1
    /\ fileDirectory[1].fileNum = assigned[2]

\* C8: when writeFile of a name that is not on the volume succeeds and
\* deleteFile of that name follows, drFreeBks, drNmFls and the ABM are what
\* they were before the write, and drNxtFNum is not smaller than before.
C8_WriteThenDelete ==
    \A name \in Names :
      \A data \in DataContents(name), rsrc \in ResourceContents(name) :
        LET w == writeFile(Vol, name, data, rsrc, DefaultMetadata)
            d == deleteFile(w.vol, name)
        IN ~Exists(Vol, name) /\ w.err = "" =>
             /\ d.err = ""
             /\ d.vol.volumeInfo.freeAllocBlocks = volumeInfo.freeAllocBlocks
             /\ d.vol.volumeInfo.numFiles = volumeInfo.numFiles
             /\ d.vol.abm = abm
             /\ d.vol.volumeInfo.nextFileNum >= volumeInfo.nextFileNum

\* a volume with a file in use, on which a new name with two forks can be
\* written and deleted
C8_Witness ==
    \E name \in Names :
      \E data \in DataContents(name), rsrc \in ResourceContents(name) :
        LET w == writeFile(Vol, name, data, rsrc, DefaultMetadata)
        IN /\ ~Exists(Vol, name)
           /\ Len(fileDirectory) = 1
           /\ data.len > 0 /\ rsrc.len > 0
           /\ w.err = ""
           /\ w.vol.abm # abm
           /\ deleteFile(w.vol, name).vol.abm = abm

\* C9: after any sequence of calls, whatever each returned, when listFiles()
\* is empty drFreeBks equals drNmAlBlks and every ABM entry is 0x000.
C9_NoLeakedBlocks ==
    listFiles(Vol) = <<>> =>
        /\ volumeInfo.freeAllocBlocks = volumeInfo.numAllocBlocks
        /\ \A i \in 1..Len(abm) : abm[i] = FreeBlock

\* what is compared of a file list: names, fork sizes and file
\* numbers, in order
Listing(v) ==
    [i \in 1..Len(listFiles(v)) |->
        [filename |-> listFiles(v)[i].filename,
         dataForkSize |-> listFiles(v)[i].dataForkSize,
         resourceForkSize |-> listFiles(v)[i].resourceForkSize,
         fileNum |-> listFiles(v)[i].fileNum]]

\* C10: after any sequence of successful calls on a volume V,
\* new MFSVolume(V.getDiskImage()) has the same volume info, the same ABM
\* and the same file list (names, fork sizes, file numbers, order).
C10_ReloadRoundTrip ==
    LET reloaded == loadExistingImage(getDiskImage(Vol))
    IN /\ reloaded.volumeInfo = volumeInfo
       /\ reloaded.abm = abm
       /\ Listing(reloaded) = Listing(Vol)

\* what a caller can observe of a volume: the ABM, the counters, the file
\* list and the bytes of the forks of every file
Observed(v) ==
    [abm |-> v.abm,
     freeAllocBlocks |-> v.volumeInfo.freeAllocBlocks,
     numFiles |-> v.volumeInfo.numFiles,
     nextFileNum |-> v.volumeInfo.nextFileNum,
     files |-> listFiles(v),
     forks |-> [i \in 1..Len(v.fileDirectory) |->
                  <<readFile(v, v.fileDirectory[i].filename, "data"),
                    readFile(v, v.fileDirectory[i].filename, "resource")>>]]

\* C11: writeFile(name, data, rsrc, meta) with
\* ceil(len(data)/drAlBlkSiz) + ceil(len(rsrc)/drAlBlkSiz) > drFreeBks fails
\* with DiskFull and leaves the volume as it was before the call: same ABM,
\* drFreeBks, drNmFls, drNxtFNum, same directory list and file contents.
C11_DiskFullAtomic ==
    \A name \in Names :
      \A data \in DataContents(name), rsrc \in ResourceContents(name) :
        blocksFor(data.len, volumeInfo.allocBlockSize)
          + blocksFor(rsrc.len, volumeInfo.allocBlockSize) > volumeInfo.freeAllocBlocks
        => LET w == writeFile(Vol, name, data, rsrc, DefaultMetadata)
           IN w.err = "DiskFull" /\ Observed(w.vol) = Observed(Vol)

\* the blocks of the two chains of the file of that name
FileBlocks(v, name) ==
    LET i == findFileEntryByName(v.fileDirectory, name)
    IN Range(Chain(v, v.fileDirectory[i].dataForkStartBlock).blocks)
         \cup Range(Chain(v, v.fileDirectory[i].resourceForkStartBlock).blocks)

\* w is the volume v after name was overwritten with forks data and rsrc:
\* drNmFls as before, the blocks of the old version free or part of the new
\* version, and the forks read back as given
Overwritten(v, w, name, data, rsrc) ==
    /\ w.volumeInfo.numFiles = v.volumeInfo.numFiles
    /\ \A b \in FileBlocks(v, name) \ FileBlocks(w, name) : w.abm[b - 1] = FreeBlock
    /\ w.volumeInfo.freeAllocBlocks
         = v.volumeInfo.freeAllocBlocks + Cardinality(FileBlocks(v, name))
             - (blocksFor(data.len, v.volumeInfo.allocBlockSize)
                  + blocksFor(rsrc.len, v.volumeInfo.allocBlockSize))
    /\ Cardinality({i \in 1..Len(w.fileDirectory) : w.fileDirectory[i].filename = name}) = 1
    /\ readFile(w, name, "data") = [err |-> "", bytes |-> contentBytes(data)]
    /\ readFile(w, name, "resource") = [err |-> "", bytes |-> contentBytes(rsrc)]

\* C13: listFiles() never holds two entries of the same filename; a
\* successful writeFile or createFile of a name that exists leaves drNmFls
\* unchanged, frees every block of the old version, and the file then holds
\* exactly the new forks (two empty forks after createFile).
C13_OverwriteUnique ==
    /\ \A i, j \in 1..Len(listFiles(Vol)) :
         i # j => listFiles(Vol)[i].filename # listFiles(Vol)[j].filename
    /\ \A name \in Names :
         Exists(Vol, name) =>
           /\ \A data \in DataContents(name), rsrc \in ResourceContents(name) :
                LET w == writeFile(Vol, name, data, rsrc, DefaultMetadata)
                IN w.err = "" => Overwritten(Vol, w.vol, name, data, rsrc)
           /\ LET c == createFile(Vol, name, DefaultMetadata)
              IN c.err = "" => Overwritten(Vol, c.vol, name, NullContent, NullContent)

\* a file with blocks is there, beside another file, and can be overwritten
\* by a version with other blocks and by createFile
C13_Witness ==
    \E name \in Names :
      \E data \in DataContents(name), rsrc \in ResourceContents(name) :
        /\ Len(fileDirectory) = 2
        /\ Exists(Vol, name)
        /\ FileBlocks(Vol, name) # {}
        /\ writeFile(Vol, name, data, rsrc, DefaultMetadata).err = ""
        /\ FileBlocks(writeFile(Vol, name, data, rsrc, DefaultMetadata).vol, name)
             # FileBlocks(Vol, name)
        /\ createFile(Vol, name, DefaultMetadata).err = ""

\* C14: for a name that is not in the directory readFile and deleteFile fail
\* with NotFound and leave the volume as it was, and getFileInfo returns
\* null; after a successful deleteFile a second deleteFile of the same name
\* fails with NotFound.
C14_NotFoundUntouched ==
    \A name \in Names :
      /\ ~Exists(Vol, name) =>
           /\ readFile(Vol, name, "data").err = "NotFound"
           /\ readFile(Vol, name, "resource").err = "NotFound"
           /\ deleteFile(Vol, name) = [err |-> "NotFound", vol |-> Vol]
           /\ getFileInfo(Vol, name) = NullInfo
      /\ Exists(Vol, name) =>
           /\ getFileInfo(Vol, name) # NullInfo
           /\ LET d == deleteFile(Vol, name)
              IN d.err = "" =>
                   deleteFile(d.vol, name) = [err |-> "NotFound", vol |-> d.vol]

\* one name is missing after files were written, and the other can be deleted
C14_Witness ==
    /\ Len(assigned) = 2
    /\ \E name \in Names : ~Exists(Vol, name)
    /\ \E name \in Names : Exists(Vol, name) /\ deleteFile(Vol, name).err = ""

\* C15: createFile fails with InvalidArgument and leaves the volume as it
\* was when the name is empty or longer than 255 characters or when type or
\* creator is not exactly 4 characters; otherwise it returns what
\* writeFile(name, null, null, metadata) returns.
C15_CreateFileValidates ==
    \A name \in ArgNames, metadata \in ArgMetadata :
      LET c == createFile(Vol, name, metadata)
      IN IF \/ Len(name) = 0
            \/ Len(name) > 255
            \/ Len(metadata.type) # 4
            \/ Len(metadata.creator) # 4
         THEN c = [err |-> "InvalidArgument", vol |-> Vol]
         ELSE c = writeFile(Vol, name, NullContent, NullContent, metadata)

\* createFile made a file, and in the state it left there are calls it
\* rejects and a call it passes on to writeFile
C15_Witness ==
    /\ \E i \in 1..Len(fileDirectory) :
         /\ fileDirectory[i].dataForkLogicalLength = 0
         /\ fileDirectory[i].resourceForkLogicalLength = 0
    /\ volumeInfo.nextFileNum <= MaxFileNum
    /\ \E name \in ArgNames, metadata \in ArgMetadata :
         Len(name) > 255 /\ createFile(Vol, name, metadata).err = "InvalidArgument"
    /\ \E name \in ArgNames, metadata \in ArgMetadata :
         /\ Exists(Vol, name)
         /\ createFile(Vol, name, metadata).err = ""

\* C15 as first stated: createFile rejects a name longer than 255 characters
\* or a type or creator not of 4 characters, and otherwise returns what
\* writeFile(name, null, null, metadata) returns.
C15_AsStated ==
    \A name \in ArgNames, metadata \in ArgMetadata :
      LET c == createFile(Vol, name, metadata)
      IN IF \/ Len(name) > 255
            \/ Len(metadata.type) # 4
            \/ Len(metadata.creator) # 4
         THEN c = [err |-> "InvalidArgument", vol |-> Vol]
         ELSE c = writeFile(Vol, name, NullContent, NullContent, metadata)

\* C16: writeFile fails with InvalidArgument and leaves the volume as it was
\* when the name is longer than 255 characters or when type or creator is
\* not exactly 4 characters.
C16_WriteFileValidates ==
    \A name \in ArgNames, metadata \in ArgMetadata, data \in ArgContents :
      (\/ Len(name) > 255
       \/ Len(metadata.type) # 4
       \/ Len(metadata.creator) # 4)
      => writeFile(Vol, name, data, NullContent, metadata)
           = [err |-> "InvalidArgument", vol |-> Vol]

\* the fields a formatted volume of that size and name has
Formatted(sizeKB, volumeName) ==
    /\ volumeInfo.signature = 53975
    /\ volumeInfo.dirStartBlock = 4
    /\ volumeInfo.dirLengthBlocks = 12
    /\ volumeInfo.allocBlockStartSector = 16
    /\ volumeInfo.allocBlockSize = 1024
    /\ 2 * volumeInfo.numAllocBlocks = (sizeKB * 1024) \div 512 - 16
    /\ volumeInfo.freeAllocBlocks = volumeInfo.numAllocBlocks
    /\ volumeInfo.numFiles = 0
    /\ volumeInfo.nextFileNum = 1
    /\ Len(abm) = volumeInfo.numAllocBlocks
    /\ \A i \in 1..Len(abm) : abm[i] = 0
    /\ \A i \in 1..Len(abm) : parseABMEntry(imageBuffer, i - 1) = 0
    /\ listFiles(Vol) = <<>>
    /\ volumeInfo.volumeName = SubSeq(volumeName, 1, Min(Len(volumeName), 27))
    /\ loadExistingImage(imageBuffer).volumeInfo = volumeInfo

C18_FormatRejects ==
    /\ ~(/\ created.sizeKB * 1024 > 0
         /\ (created.sizeKB * 1024) % 512 = 0
         /\ created.sizeKB * 1024 >= (2 + 2 + 12) * 512 + 1024)
       => created.err \in {"pending", "InvalidArgument"}
    /\ created.err = "" => volumeInfo.numAllocBlocks >= 1

\* the counters and the ABM decoded from the MDB bytes of the buffer of v are
\* those v holds in memory
Coherent(v) ==
    LET decoded == parseVolumeInfo(v.imageBuffer)
    IN /\ decoded.numFiles = v.volumeInfo.numFiles
       /\ decoded.nextFileNum = v.volumeInfo.nextFileNum
       /\ decoded.freeAllocBlocks = v.volumeInfo.freeAllocBlocks
       /\ parseABM(v.imageBuffer, decoded.numAllocBlocks) = v.abm

\* C19: after every writeFile, createFile or deleteFile that returns without
\* an error, drNmFls, drNxtFNum, drFreeBks and the packed ABM decoded from the
\* MDB bytes of the image buffer are the in-memory counters and ABM array.
C19_MDBCoherent ==
    \A name \in Names :
      /\ \A data \in DataContents(name), rsrc \in ResourceContents(name) :
           LET w == writeFile(Vol, name, data, rsrc, DefaultMetadata)
           IN w.err = "" => Coherent(w.vol)
      /\ LET c == createFile(Vol, name, DefaultMetadata)
         IN c.err = "" => Coherent(c.vol)
      /\ LET d == deleteFile(Vol, name)
         IN d.err = "" => Coherent(d.vol)

\* a file with blocks is there and can be deleted, and another file with
\* blocks can be written beside it
C19_Witness ==
    /\ \E i \in 1..Len(abm) : abm[i] # FreeBlock
    /\ \E name \in Names : deleteFile(Vol, name).err = ""
    /\ \E name \in Names :
         \E data \in DataContents(name), rsrc \in ResourceContents(name) :
           /\ ~Exists(Vol, name)
           /\ data # NullContent
           /\ writeFile(Vol, name, data, rsrc, DefaultMetadata).err = ""

\* C12: when writeFile of a new name fails with DirectoryFull, the ABM and
\* drFreeBks are those before the call, and drNmFls and drNxtFNum are
\* unchanged.
C12_DirectoryFullRollsBack ==
    \A name \in FullNames :
      \A data \in DataContents(name), rsrc \in ResourceContents(name) :
        LET w == writeFile(Vol, name, data, rsrc, DefaultMetadata)
        IN (~Exists(Vol, name) /\ w.err = "DirectoryFull") =>
             /\ w.vol.abm = abm
             /\ w.vol.volumeInfo.freeAllocBlocks = volumeInfo.freeAllocBlocks
             /\ w.vol.volumeInfo.numFiles = volumeInfo.numFiles
             /\ w.vol.volumeInfo.nextFileNum = volumeInfo.nextFileNum

\* the bytes of the buffer of the second handle
LoadedBuffer == BufferOf(loaded)

\* C20: a call on one handle never changes the buffer of the other handle: a
\* step that leaves the fields of the second handle as they are leaves its
\* buffer as it is, and a step that changes the fields of the second handle
\* and none of the first leaves the buffer of the first as it is.
C20_HandlesShareNothing ==
    [][/\ (loaded # NoHandle /\ loaded' = loaded) => LoadedBuffer' = LoadedBuffer
       /\ (/\ loaded # NoHandle
           /\ loaded' # loaded
           /\ <<volumeInfo, abm, fileDirectory>>' = <<volumeInfo, abm, fileDirectory>>)
          => imageBuffer' = imageBuffer]_vars

(***************************************************************************)
(* Properties of PackBits.                                                 *)
(***************************************************************************)
\* C21: decompressScanline applied to compressScanline(s) returns the 72
\* bytes of s, with no error and with bytesRead the length of the compressed
\* data.
C21_PackBitsRoundTrip ==
    paint.stage = "roundtrip" =>
      /\ paint.result.error = ""
      /\ paint.result.data = paint.scanline
      /\ paint.result.bytesRead = Len(paint.compressed.data)

\* a scanline with a repeat run and a literal run went through both
C21_Witness ==
    /\ paint.stage = "roundtrip"
    /\ \E k \in 1..Len(paint.compressed.data) : paint.compressed.data[k] > 128
    /\ \E k \in 1..(SCANLINE_BYTES - 1) : paint.scanline[k] # paint.scanline[k + 1]
    /\ Len(paint.compressed.data) > 2

\* C22: compressScanline(s) of a 72-byte scanline s has at most 73 bytes.
C22_PackBitsSizeBound ==
    paint.stage = "compressed" => Len(paint.compressed.data) <= 73

\* what the control byte at position pos of the input stands for: the number
\* of input bytes behind it that belong to the packet, and the bytes it
\* produces
PacketInputBytes(input, pos) ==
    LET n == toInt8(input[pos + 1])
    IN IF n >= 0 THEN n + 1 ELSE IF n = 0 - 128 THEN 0 ELSE 1

PacketProduces(input, pos) ==
    LET n == toInt8(input[pos + 1])
    IN IF n >= 0 THEN n + 1 ELSE IF n = 0 - 128 THEN 0 ELSE 1 - n

PacketBytes(input, pos) ==
    LET n == toInt8(input[pos + 1])
    IN IF n >= 0 THEN SubSeq(input, pos + 2, pos + 2 + n)
       ELSE IF n = 0 - 128 THEN <<>>
       ELSE Fill(input[pos + 2], 1 - n)

\* the packets from pos on, read until 72 bytes are produced: corrupted when
\* a packet would overrun the 72 bytes or the input ends before
RECURSIVE Unpacked(_, _, _)
Unpacked(input, pos, out) ==
    IF Len(out) = SCANLINE_BYTES THEN [corrupted |-> FALSE, data |-> out, end |-> pos]
    ELSE IF pos >= Len(input) THEN [corrupted |-> TRUE, data |-> out, end |-> pos]
    ELSE IF Len(out) + PacketProduces(input, pos) > SCANLINE_BYTES
    THEN [corrupted |-> TRUE, data |-> out, end |-> pos]
    ELSE IF pos + 1 + PacketInputBytes(input, pos) > Len(input)
    THEN [corrupted |-> TRUE, data |-> out, end |-> pos]
    ELSE Unpacked(input, pos + 1 + PacketInputBytes(input, pos),
                  out \o PacketBytes(input, pos))

\* C23: decompressScanline reads control byte n as "copy the next n+1 bytes"
\* for 0..127, "repeat the next byte 1-n times" for -127..-1 and nothing for
\* -128, stops when 72 bytes are produced and returns them with the number
\* of input bytes consumed, all of them inside the input; it reports an error
\* exactly when a packet would overrun the 72 bytes or the input ends before
\* 72 bytes are produced.
C23_PackBitsDecoding ==
    paint.stage = "decoded" =>
      LET e == Unpacked(paint.input, paint.offset, <<>>)
          r == paint.result
      IN /\ (r.error # "") <=> e.corrupted
         /\ r.error = "" =>
              /\ Len(r.data) = 72
              /\ r.data = e.data
              /\ r.bytesRead = e.end - paint.offset
              /\ paint.offset + r.bytesRead <= Len(paint.input)

\* a scanline was decoded from offset 1, out of a literal, a no-op and a
\* repeat packet at least
C23_Witness ==
    /\ paint.stage = "decoded"
    /\ paint.result.error = ""
    /\ paint.offset = 1
    /\ \E k \in 2..Len(paint.input) : paint.input[k] = 128
    /\ \E k \in 1..71 : paint.result.data[k] # paint.result.data[k + 1]

(***************************************************************************)
(* Properties of the dithering strategies                                  *)
(***************************************************************************)
\* C26: dithering does not mutate its input.  After apply() of any of the
\* four strategies every element of the caller's grayscale buffer is what it
\* was before the call, and a second apply() on the same buffer with the same
\* strategy returns the same output as the first.
C26_DitherLeavesInput ==
    /\ paint.stage \in {"dithered", "again"} => paint.gray = paint.given
    /\ paint.stage = "again" => paint.second = paint.first

\* an error-diffusion strategy was applied twice to a raster whose pixels
\* pass error to each other, and some pixel came out black
C26_Witness ==
    /\ paint.stage = "again"
    /\ paint.strategy.kind \in {"Atkinson", "FloydSteinberg"}
    /\ paint.given.width = 2 /\ paint.given.height = 2
    /\ paint.given.data = <<100, 200, 200, 100>>
    /\ paint.first = <<144>>

(***************************************************************************)
(* Properties of MacPaintImage                                             *)
(***************************************************************************)
\* where the application header of the parsed file starts
HeaderStart == IF isMacBinary(paint.arrayBuffer) THEN MACBINARY_BYTES ELSE 0

HeaderShort == Len(paint.arrayBuffer) < HeaderStart + HEADER_BYTES

MarkerWrong ==
    SubSeq(paint.arrayBuffer, HeaderStart + 1, HeaderStart + 4) # <<0, 0, 0, 2>>

FileTooShort == "File too short to contain MacPaint application header."

PatternsWritten ==
    IF Len(paint.image.writeOptions.patterns) > 0
    THEN paint.image.writeOptions.patterns[1] ELSE paint.image.patterns

\* C25: serialise always emits a well-formed PNTG.  toArrayBuffer either
\* fails or the dithered buffer has exactly 51,840 bytes and the output is a
\* 512-byte header (marker 0x00000002, the 38 x 8 pattern bytes, 204 zero
\* bytes) followed by exactly 720 compressed scanlines that each decode to
\* 72 bytes: fromArrayBuffer of the output succeeds with a 576 x 720 raster,
\* having read the output to its end.
C25_SerialiseWellFormed ==
    paint.stage \in {"serialised", "readback"} /\ paint.written.err = ""
        => /\ paint.written.oneBitLength = 51840
           /\ Len(paint.written.buffer) >= HEADER_BYTES
           /\ SubSeq(paint.written.buffer, 1, 4) = <<0, 0, 0, 2>>
           /\ \A i \in 1..PATTERN_COUNT, j \in 1..PATTERN_BYTES :
                paint.written.buffer[4 + (i - 1) * PATTERN_BYTES + j]
                  = PatternsWritten[i][j]
           /\ \A k \in (HEADER_BYTES - 203)..HEADER_BYTES : paint.written.buffer[k] = 0
           /\ paint.stage = "readback"
                => /\ paint.parsed.err = ""
                   /\ paint.parsed.offset = Len(paint.written.buffer)
                   /\ paint.parsed.instance.imageData.width = 576
                   /\ paint.parsed.instance.imageData.height = 720
                   /\ BandRows(paint.parsed.instance.imageData.bands, 1,
                               Len(paint.parsed.instance.imageData.bands)) = 720
                   /\ \A k \in 1..Len(paint.parsed.instance.imageData.bands) :
                        Len(paint.parsed.instance.imageData.bands[k].line) = 576
                   /\ paint.parsed.instance.patterns = PatternsWritten

\* a cropped raster, padded in white and dithered by the default strategy,
\* was serialised and read back as a raster that is not blank
C25_Witness ==
    /\ paint.stage = "readback"
    /\ Len(paint.image.writeOptions.crop) > 0
    /\ Len(paint.image.writeOptions.padding) > 0
    /\ paint.image.writeOptions.ditheringStrategy[1].kind = "Atkinson"
    /\ Len(paint.parsed.instance.imageData.bands) >= 3

(***************************************************************************)
(* Properties of the directory                                             *)
(***************************************************************************)
\* the directory sector the byte at disk offset o lies in
SectorOf(o) == o \div SECTOR_SIZE

\* the entries of the loaded copy whose flag byte has bit 7 clear
TombstonesInCopy == {o \in slots : readUint8(copyBuffer, o) < 128}

\* C27: directory scan finds every in-use entry.  When an image is parsed,
\* an entry whose flag byte has bit 7 clear ends the scan of its directory
\* sector only: every in-use entry in a later sector is listed by the
\* handle that was loaded from the image.
C27_ScanResumes ==
    loaded # NoHandle =>
        \A o \in slots :
            /\ readUint8(copyBuffer, o) >= 128
            /\ \E t \in TombstonesInCopy : SectorOf(t) < SectorOf(o)
            => \E i \in 1..Len(loaded.fileDirectory) :
                   loaded.fileDirectory[i].diskOffset = o

\* the disk offset of the last byte of the entry stored at o: the 51 header
\* bytes, the name and the pad byte that makes the length even
EntryLastByte(o) == o + entryLength(readUint8(imageBuffer, o + 50)) - 1

\* C28: directory entries never span a sector boundary.  The first and the
\* last byte of every entry createFile or writeFile wrote lie in the same
\* 512-byte directory sector, and every entry starts at an even offset.
C28_EntriesWithinSector ==
    \A o \in slots :
        /\ SectorOf(o) = SectorOf(EntryLastByte(o))
        /\ o % 2 = 0

\* the bytes of the File Directory region of the image
DirectoryArea(buf) ==
    Slice(buf, volumeInfo.dirStartBlock * SECTOR_SIZE,
          volumeInfo.dirLengthBlocks * SECTOR_SIZE)

\* the bytes of the allocation blocks of the image
BlockArea(buf) ==
    Slice(buf, volumeInfo.allocBlockStartSector * SECTOR_SIZE,
          byteLength(buf) - volumeInfo.allocBlockStartSector * SECTOR_SIZE)

\* a call took a file off the directory without adding one
FileDeleted ==
    /\ volumeInfo'.numFiles = volumeInfo.numFiles - 1
    /\ volumeInfo'.nextFileNum = volumeInfo.nextFileNum

\* C29: delete leaves a tombstone.  A call that deletes a file changes
\* exactly one byte of the File Directory region, the flag byte of the
\* deleted entry, whose bit 7 was set and is cleared and whose other bits
\* are kept; all other directory bytes and all allocation-block bytes are
\* unchanged.
C29_DeleteLeavesTombstone ==
    [][FileDeleted =>
         \E i \in 1..Len(fileDirectory) :
             LET o == fileDirectory[i].diskOffset
                 flags == readUint8(imageBuffer, o)
             IN /\ fileDirectory' = SubSeq(fileDirectory, 1, i - 1)
                                      \o SubSeq(fileDirectory, i + 1, Len(fileDirectory))
                /\ flags >= 128
                /\ readUint8(imageBuffer', o) = flags - 128
                /\ DirectoryArea(imageBuffer')
                     = WriteRun(DirectoryArea(imageBuffer),
                                o - volumeInfo.dirStartBlock * SECTOR_SIZE,
                                Lit(flags - 128, 1))
                /\ BlockArea(imageBuffer') = BlockArea(imageBuffer)]_vars

(***************************************************************************)
(* Properties of the allocation of chains                                  *)
(***************************************************************************)
\* the free blocks of the volume, by their MFS block numbers
FreeBlocks == {b \in 2..(Len(abm) + 1) : abm[b - 1] = FreeBlock}

\* the n lowest numbers of S
Lowest(S, n) == {b \in S : Cardinality({c \in S : c < b}) < n}

Increasing(s) == \A i \in 1..(Len(s) - 1) : s[i] < s[i + 1]

\* _allocateBlockChain(n) on the volume of the state did as C30 says
AllocatesFirstFit(n) ==
    LET r == allocateBlockChain(Vol, n)
        blocks == r.allocatedBlocks
    IN IF n = 0
       THEN r.err = "" /\ r.startBlock = 0 /\ blocks = <<>> /\ r.vol = Vol
       ELSE IF n > Cardinality(FreeBlocks)
       THEN r.err = "DiskFull" /\ r.vol = Vol
       ELSE /\ r.err = ""
            /\ Len(blocks) = n
            /\ Range(blocks) = Lowest(FreeBlocks, n)
            /\ Increasing(blocks)
            /\ r.startBlock = blocks[1]
            /\ \A i \in 1..n :
                 r.vol.abm[blocks[i] - 1]
                   = IF i < n THEN blocks[i + 1] ELSE EndOfChain
            /\ \A b \in 2..(Len(abm) + 1) :
                 b \notin Range(blocks) => r.vol.abm[b - 1] = abm[b - 1]
            /\ Len(r.vol.abm) = Len(abm)
            /\ r.vol.volumeInfo
                 = [volumeInfo EXCEPT !.freeAllocBlocks = @ - n]
            /\ r.vol.imageBuffer = imageBuffer
            /\ r.vol.fileDirectory = fileDirectory

\* C30: first-fit chain allocation.  On every volume the calls reach,
\* _allocateBlockChain(N) with 1 <= N <= number of free entries takes the N
\* lowest-numbered free blocks, links them in ascending order with the last
\* set to 0x001, decrements drFreeBks by N and changes no other ABM entry;
\* with N = 0 it returns start block 0 and changes nothing; with N greater
\* than the free count it fails with DiskFull and changes nothing.  Every
\* chain of a file in use has strictly increasing block numbers.
C30_FirstFitAllocation ==
    /\ \A n \in 0..(volumeInfo.numAllocBlocks + 1) : AllocatesFirstFit(n)
    /\ \A f \in Forks(Vol) : Increasing(Chain(Vol, StartBlock(Vol, f)).blocks)

\* a file of two blocks is in use between two free blocks, which a chain
\* of two blocks would take
C30_Witness ==
    /\ FreeBlocks = {2, 5}
    /\ \E f \in Forks(Vol) : Chain(Vol, StartBlock(Vol, f)).blocks = <<3, 4>>
    /\ allocateBlockChain(Vol, 2).allocatedBlocks = <<2, 5>>
    /\ allocateBlockChain(Vol, 2).vol.abm = <<5, 4, 1, 1>>

(***************************************************************************)
(* Properties of the 12-bit codec                                          *)
(***************************************************************************)
CodecBytes == {0, 90, 255}

\* packABMEntryToTriplet of value over the triplet b0 b1 b2 stores value in
\* its slot and leaves the other slot as it was, or throws
PacksOneSlot(value, b0, b1, b2, isEvenIndex) ==
    LET p == packABMEntryToTriplet(value, b0, b1, b2, isEvenIndex)
    IN IF value > MaxABMValue THEN p.err = "InvalidArgument"
       ELSE /\ p.err = ""
            /\ getABMEntryFromTriplet(p.b0, p.b1, p.b2, isEvenIndex) = value
            /\ getABMEntryFromTriplet(p.b0, p.b1, p.b2, ~isEvenIndex)
                 = getABMEntryFromTriplet(b0, b1, b2, ~isEvenIndex)

\* C31: 12-bit ABM codec round-trip.  For every ABM array of drNmAlBlks
\* entries of at most 0xFFF, of odd or even length, the array _parseMDB
\* reads is the array _writeMDB stored; writing one slot of a triplet
\* leaves the value of the other slot unchanged, so that the slot after an
\* array of odd length keeps its value; packing a value above 0xFFF fails.
C31_CodecRoundTrip ==
    /\ \A value \in CodecValues, b0 \in CodecBytes, b1 \in CodecBytes,
          b2 \in CodecBytes, isEvenIndex \in BOOLEAN :
            PacksOneSlot(value, b0, b1, b2, isEvenIndex)
    /\ writeMDBThrows(volumeInfo, abm)
         <=> \E i \in 1..volumeInfo.numAllocBlocks : AbmAt(abm, i - 1) > MaxABMValue
    /\ loaded # NoHandle /\ ~writeMDBThrows(volumeInfo, abm)
         => /\ loaded.abm = abm
            /\ loaded.volumeInfo.numAllocBlocks = Len(abm)
            /\ Len(abm) % 2 = 1
                 => parseABMEntry(imageBuffer, Len(abm))
                      = parseABMEntry(copyBuffer, Len(abm))

\* an array of three entries was stored over old entries of 0xFFF and read
\* again, the fourth slot still holding 0xFFF
C31_Witness ==
    /\ loaded # NoHandle
    /\ abm = <<2748, MaxABMValue, EndOfChain>>
    /\ loaded.abm = abm
    /\ parseABM(copyBuffer, 4) = <<MaxABMValue, MaxABMValue, MaxABMValue, MaxABMValue>>
    /\ parseABMEntry(imageBuffer, 3) = MaxABMValue

(***************************************************************************)
(* Properties of the chain walks on images of any content                  *)
(***************************************************************************)
\* the passes the chain loop of readFile makes for fork f of volume v
ReadSteps(v, f) ==
    IF StartBlock(v, f) = 0 \/ LogicalLength(v, f) = 0 THEN 0
    ELSE readSteps(v, StartBlock(v, f), LogicalLength(v, f), AllocLength(v, f), 0)

\* the passes the loop of _freeBlockChain makes from block start: one for
\* each block counted, and the one that throws
FreeSteps(v, start) ==
    IF start = 0 THEN 0
    ELSE LET w == freeWalk(v.abm, v.volumeInfo.numAllocBlocks, start, 0)
         IN w.freedCount + (IF w.err # "" THEN 1 ELSE 0)

\* C32: chain walks always terminate.  Whatever the allocation block map
\* and the directory entries of a loaded image hold, the chain loops of
\* readFile and of _freeBlockChain make at most drNmAlBlks + 1 passes for
\* every fork.
C32_WalksWithinBound ==
    \A f \in Forks(Vol) :
        /\ ReadSteps(Vol, f) <= volumeInfo.numAllocBlocks + 1
        /\ FreeSteps(Vol, StartBlock(Vol, f)) <= volumeInfo.numAllocBlocks + 1

\* the entries that are free in array b and were not in array a
FreedEntries(a, b) == {i \in 1..Len(a) : a[i] # FreeBlock /\ b[i] = FreeBlock}

\* C33: freeing a corrupted chain counts correctly.  _freeBlockChain from the
\* start block of a fork that lies in the volume returns without an error,
\* whatever the links are, and the count it returns and adds to drFreeBks
\* is the number of entries it changed from non-free to 0x000; so where
\* drFreeBks is the number of free entries before deleteFile, it is after.
C33_FreeCountAfterDelete ==
    /\ \A f \in Forks(Vol) :
          LET r == freeBlockChain(Vol, StartBlock(Vol, f))
          IN validBlockNum(volumeInfo.numAllocBlocks, StartBlock(Vol, f))
               => /\ r.err = ""
                  /\ r.freedCount = Cardinality(FreedEntries(abm, r.vol.abm))
                  /\ r.vol.volumeInfo.freeAllocBlocks
                       = volumeInfo.freeAllocBlocks + r.freedCount
    /\ \A name \in Names :
          LET d == deleteFile(Vol, name)
          IN Exists(Vol, name) /\ d.err = ""
             /\ volumeInfo.freeAllocBlocks = FreeCount(abm)
               => d.vol.volumeInfo.freeAllocBlocks = FreeCount(d.vol.abm)

\* the walk of a fork from block current, remaining bytes still to read,
\* meets a block number outside the volume or an entry of 0x000 or 0xFFF
RECURSIVE MeetsCorruption(_, _, _)
MeetsCorruption(v, current, remaining) ==
    IF ~validBlockNum(v.volumeInfo.numAllocBlocks, current) THEN TRUE
    ELSE LET next == getABMEntry(v.abm, current)
         IN IF next = EndOfChain THEN FALSE
            ELSE IF next = FreeBlock \/ next = MaxABMValue THEN TRUE
            ELSE IF ~validBlockNum(v.volumeInfo.numAllocBlocks, next) THEN TRUE
            ELSE IF remaining <= v.volumeInfo.allocBlockSize THEN FALSE
            ELSE MeetsCorruption(v, next, remaining - v.volumeInfo.allocBlockSize)

ForkName(f) == IF f[2] = "data" THEN "data" ELSE "resource"

\* C34: readFile detects corrupted chains.  For a fork of a loaded image
\* with a start block and a logical length other than zero, readFile fails
\* with Corrupted and returns no data when the walk meets a block number
\* outside [2, drNmAlBlks + 1], the start block included, or an entry of
\* 0x000 or 0xFFF; otherwise it returns logicalLength bytes.
C34_ReadDetectsCorruption ==
    \A f \in Forks(Vol) :
        LET r == readFile(Vol, fileDirectory[f[1]].filename, ForkName(f))
        IN StartBlock(Vol, f) # 0 /\ LogicalLength(Vol, f) # 0
             => IF MeetsCorruption(Vol, StartBlock(Vol, f), LogicalLength(Vol, f))
                THEN r.err = "Corrupted" /\ r.bytes = <<>>
                ELSE r.err = "" /\ byteLength(r.bytes) = LogicalLength(Vol, f)

\* the file numbers of the entries of a directory
FileNumbers(dir) == {dir[i].fileNum : i \in 1..Len(dir)}

\* the blocks on the chains of those files of volume v that directory dir
\* does not hold
BlocksOfFilesNotIn(v, dir) ==
    UNION {Range(Chain(v, StartBlock(v, f)).blocks) :
             f \in {g \in Forks(v) :
                      v.fileDirectory[g[1]].fileNum \notin FileNumbers(dir)}}

ListedFolderNums(v, name) ==
    {listFiles(v)[i].folderNum :
       i \in {j \in 1..Len(v.fileDirectory) : v.fileDirectory[j].filename = name}}

\* C36: the folder number is a signed 16-bit field that survives the image.
\* After writeFile with metadata.folderNum = f, for f in [-32768, 32767],
\* a handle loaded from the image lists the file with folderNum = f.
C36_FolderNumSurvives ==
    /\ \A name \in Names, f \in FolderNums :
          LET w == writeFile(Vol, name, NullContent, NullContent, FolderMetadata(f))
          IN w.err = ""
               => ListedFolderNums(loadExistingImage(getDiskImage(w.vol)), name)
                    \subseteq {f}
    /\ loaded # NoHandle /\ BufferOf(loaded) = imageBuffer
         => \A i \in 1..Len(fileDirectory) :
               ListedFolderNums(LoadedVol, fileDirectory[i].filename)
                 \subseteq {fileDirectory[i].folderNum}

(***************************************************************************)
(* Properties of the directory region                                      *)
(***************************************************************************)
\* the disk offset of the first byte after the File Directory region
DirectoryEnd == (volumeInfo.dirStartBlock + volumeInfo.dirLengthBlocks) * SECTOR_SIZE

\* C37: directory entries stay inside the directory region.  Every byte
\* written for a directory entry lies in sectors drDirSt .. drDirSt +
\* drDirLen - 1; createFile of a name whose entry does not fit after the
\* last entry fails with DirectoryFull, and one that succeeds changes no
\* byte of the allocation blocks; entries in use do not overlap.
C37_EntriesInsideDirectory ==
    /\ \A o \in slots :
          /\ o >= volumeInfo.dirStartBlock * SECTOR_SIZE
          /\ EntryLastByte(o) < DirectoryEnd
    /\ \A name \in FullNames :
          LET c == createFile(Vol, name, DefaultMetadata)
              o == volumeInfo.dirStartBlock * SECTOR_SIZE
                     + lastEntryEnd(fileDirectory, volumeInfo.dirStartBlock * SECTOR_SIZE)
          IN ~Exists(Vol, name) =>
               /\ o + entryLength(Len(name)) > DirectoryEnd => c.err = "DirectoryFull"
               /\ c.err = "" => BlockArea(c.vol.imageBuffer) = BlockArea(imageBuffer)
    /\ \A o1 \in InUseOnDisk, o2 \in InUseOnDisk :
          o1 < o2 => EntryLastByte(o1) < o2

(***************************************************************************)
(* Properties of the size of the allocation block map                      *)
(***************************************************************************)
\* the highest block number the links of the ABM are meant to hold, 0xFEF
MaxLinkValue == MaxABMValue - 16

\* C38: the ABM fits in the MDB.  On every volume the formatter made, the
\* packed ABM, three bytes for every two of the drNmAlBlks entries from
\* offset 64 of the MDB, ends within sector 3; serialising the MDB, whatever
\* the entry of the last block has become, changes no byte of the File
\* Directory or of the allocation blocks; and the
\* highest block number, drNmAlBlks + 1, is at most 0xFEF.
C38_ABMWithinMDB ==
    /\ abmDiskOffset + ((volumeInfo.numAllocBlocks + 1) \div 2) * 3
         <= volumeInfo.dirStartBlock * SECTOR_SIZE
    /\ \A value \in {FreeBlock, EndOfChain} :
          LET buf == writeMDB(imageBuffer, volumeInfo,
                              setABMEntry(abm, volumeInfo.numAllocBlocks + 1, value))
          IN /\ DirectoryArea(buf) = DirectoryArea(imageBuffer)
             /\ BlockArea(buf) = BlockArea(imageBuffer)
    /\ volumeInfo.numAllocBlocks + 1 <= MaxLinkValue

(***************************************************************************)
(* Properties of calls on other files                                      *)
(***************************************************************************)
\* what a client can read of the file of that name on volume v
FileView(v, name) ==
    [data |-> readFile(v, name, "data"),
     resource |-> readFile(v, name, "resource"),
     info |-> getFileInfo(v, name)]

\* the volumes the calls of createFile, writeFile and deleteFile on that
\* name leave, whether they return or throw
AfterCallsOn(name) ==
    {createFile(Vol, name, DefaultMetadata).vol, deleteFile(Vol, name).vol}
      \cup {writeFile(Vol, name, data, rsrc, DefaultMetadata).vol :
               data \in DataContents(name), rsrc \in ResourceContents(name)}

\* C39: operations on one file do not disturb the others.  For every file Y
\* in use, a call of createFile, writeFile or deleteFile on another name,
\* whether it succeeds or fails, leaves what readFile returns for the two
\* forks of Y and the file-info record of Y unchanged.
C39_OthersUndisturbed ==
    \A i \in 1..Len(fileDirectory) :
      \A name \in FullNames \ {fileDirectory[i].filename} :
        \A v \in AfterCallsOn(name) :
            FileView(v, fileDirectory[i].filename)
              = FileView(Vol, fileDirectory[i].filename)

(***************************************************************************)
(* Properties of the round trip of a raster                                *)
(***************************************************************************)
\* every pixel of the image is opaque black or opaque white
BlackAndWhite(imageDataObject) ==
    \A k \in 1..Len(imageDataObject.bands) :
        \A c \in 1..imageDataObject.width :
            imageDataObject.bands[k].line[c] \in {BlackPixel, WhitePixel}

\* C40: PNTG round-trip on black-and-white rasters.  For a 576 x 720 raster
\* of opaque black and white pixels, without crop or padding and with any
\* of the four strategies at its default parameters, toArrayBuffer succeeds
\* and fromArrayBuffer of its output returns the same raster and the 38
\* patterns that were written.
C40_RasterRoundTrip ==
    /\ paint.stage \in {"serialised", "readback"}
    /\ paint.image.imageData.width = PNTG_WIDTH
    /\ paint.image.imageData.height = PNTG_HEIGHT
    /\ BlackAndWhite(paint.image.imageData)
    /\ Len(paint.image.writeOptions.crop) = 0
    /\ Len(paint.image.writeOptions.padding) = 0
    => /\ paint.written.err = ""
       /\ paint.stage = "readback"
            => /\ paint.parsed.err = ""
               /\ paint.parsed.instance.imageData = paint.image.imageData
               /\ paint.parsed.instance.patterns = PatternsWritten

\* a raster with its leftmost column black above and stripes below went
\* through the Bayer strategy and came back as it was, with the client's
\* patterns
C40_Witness ==
    /\ paint.stage = "readback"
    /\ paint.image.writeOptions.ditheringStrategy[1].kind = "Bayer"
    /\ Len(paint.image.writeOptions.patterns) > 0
    /\ Len(paint.image.imageData.bands) = 2
    /\ paint.image.imageData.bands[1].line[1] = BlackPixel
    /\ paint.image.imageData.bands[1].line[2] = WhitePixel
    /\ paint.image.imageData.bands[2].line[4] = BlackPixel
    /\ paint.parsed.instance.imageData = paint.image.imageData
    /\ paint.parsed.instance.patterns = CustomPatterns

====
